---- MODULE Spec2Model ----
(***************************************************************************)
(* Match simulation engine and tournament bracket engine of the Rocket     *)
(* League GM Simulator (core/simulation/match_engine.py and                *)
(* core/simulation/tournament.py).                                         *)
(*                                                                         *)
(* Six components are modelled, each with its own specification:           *)
(*   SpecSeries   MatchEngine.simulate_series / simulate_game              *)
(*   SpecSwiss    SwissBracket driven round by round (Game._run_swiss_round)*)
(*   SpecDE       DoubleEliminationBracket driven through get_next_matches *)
(*   SpecRegional RegionalTournament driven by                             *)
(*                Game._simulate_tournament_round                          *)
(*   SpecConstruct the constructors of the three bracket classes, called   *)
(*                with team lists of every length                          *)
(*   SpecGame     MatchEngine.simulate_game with the players' stat lines   *)
(* Random draws (random.gauss, random.random, random.shuffle) are          *)
(* nondeterministic choices over every value the draw can produce; in      *)
(* SpecRegional, with its 32 teams, over the values listed in Draws.       *)
(* The variables of a component that a specification does not exercise     *)
(* stay at the value Unused.                                               *)
(***************************************************************************)
EXTENDS Integers, Sequences, FiniteSets, TLC

VARIABLES
    \* ---- MatchEngine.simulate_series / simulate_game ----
    pc,          \* position in simulate_series: "loop", "game", "done"
    best_of,     \* simulate_series argument
    home_wins,   \* local of simulate_series
    away_wins,   \* local of simulate_series
    games,       \* local of simulate_series: the winner of each GameResult
    game,        \* the GameResult simulate_game returned last, None before
    home_goals,  \* local of simulate_game
    away_goals,  \* local of simulate_game
    overtime,    \* local of simulate_game
    series,      \* the SeriesResult returned, None before the return
    \* ---- SwissBracket and its round driver ----
    bracket,     \* the SwissBracket object
    matchups,    \* the driver's list of the round in progress, <<>> between rounds
    bye,         \* team given the bye in the round in progress, None if none
    recorded,    \* indices of matchups whose result the driver has recorded
    byes_given,  \* number of _give_bye calls so far
    calls,       \* number of generate_round_matchups calls so far
    \* ---- DoubleEliminationBracket ----
    de,          \* the DoubleEliminationBracket object
    \* ---- RegionalTournament and its round driver ----
    regional,    \* the RegionalTournament object
    raised,      \* the exception the last driver call ended with, None if none
    draw,        \* the random draws of the coming round of the regional
    \* ---- constructor calls ----
    ctor,        \* the class whose constructor was called, None before the call
    arg,         \* the team list passed to the constructor
    obj,         \* the object the constructor produced, NoObject if none
    \* ---- MatchEngine.simulate_game with its player stats ----
    home_stats,  \* local of simulate_game: the home PlayerMatchStats list
    away_stats,  \* local of simulate_game: the away PlayerMatchStats list
    resolved     \* per side, the sum of the stats every _resolve_chances call
                 \* returned, and the number of overtime iterations run

seriesVars == <<pc, best_of, home_wins, away_wins, games, game, home_goals, away_goals, overtime, series>>
swissVars == <<bracket, matchups, bye, recorded, byes_given, calls>>
deVars == <<de>>
regionalVars == <<regional, raised, draw>>
constructVars == <<ctor, arg, obj>>
statVars == <<home_stats, away_stats, resolved>>
vars == <<seriesVars, swissVars, deVars, regionalVars, constructVars, statVars>>

None == "None"
Unused == "Unused"

\* the draw of a specification whose random draws range over every value
AnyDraw == [shuffle |-> "any", winner |-> "any"]

Range(s) == {s[i] : i \in DOMAIN s}

IsPrefix(s, t) == Len(s) <= Len(t) /\ SubSeq(t, 1, Len(s)) = s
NoDuplicates(s) == \A i, j \in DOMAIN s : s[i] = s[j] => i = j

Max(a, b) == IF a > b THEN a ELSE b
Min(a, b) == IF a < b THEN a ELSE b

(***************************************************************************)
(* Bounds                                                                  *)
(***************************************************************************)
\* largest best_of passed to simulate_series
MaxBestOf == 7
\* largest number of goals a side scores in regulation
MaxGoals == 2
\* largest number of goals a side scores in one overtime iteration
MaxOtGoals == 1
\* overtime iterations that leave the game tied stop at this score
MaxTiedScore == 2

(***************************************************************************)
(* MatchEngine.simulate_series and simulate_game                           *)
(***************************************************************************)
WinsNeededHalf(bo) == (bo + 1) \div 2
\* wins_needed = (best_of // 2) + 1
WinsNeeded(bo) == (bo \div 2) + 1

SeriesLoopCond(hw, aw, bo) == hw < WinsNeeded(bo) /\ aw < WinsNeeded(bo)

OvertimeLoopCondScoreless(hg, ag) == hg = ag /\ hg = 0
\* while home_goals == away_goals
OvertimeLoopCond(hg, ag) == hg = ag

\* GameResult(home_score, away_score, ..., overtime)
GameResult(hg, ag, ot) == [home_score |-> hg, away_score |-> ag, overtime |-> ot]

\* GameResult.winner
Winner(g) == IF g.home_score > g.away_score THEN "home" ELSE "away"

\* simulate_series entered with best_of drawn from 1..MaxBestOf
InitSeries ==
    /\ pc = "loop"
    /\ best_of \in 1..MaxBestOf
    /\ home_wins = 0
    /\ away_wins = 0
    /\ games = <<>>
    /\ game = None
    /\ home_goals = 0
    /\ away_goals = 0
    /\ overtime = FALSE
    /\ series = None
    /\ bracket = Unused /\ matchups = Unused /\ bye = Unused
    /\ recorded = Unused /\ byes_given = Unused /\ calls = Unused
    /\ de = Unused
    /\ regional = Unused /\ raised = Unused /\ draw = AnyDraw
    /\ ctor = Unused /\ arg = Unused /\ obj = Unused
    /\ home_stats = Unused /\ away_stats = Unused /\ resolved = Unused

\* simulate_game up to the overtime loop: both sides' chances are resolved
\* into goals (_resolve_chances returns between 0 and num_chances goals)
SimulateGameRegulation ==
    /\ pc = "loop"
    /\ SeriesLoopCond(home_wins, away_wins, best_of)
    /\ \E hg \in 0..MaxGoals, ag \in 0..MaxGoals :
        /\ home_goals' = hg
        /\ away_goals' = ag
    /\ overtime' = FALSE
    /\ pc' = "game"
    /\ UNCHANGED <<best_of, home_wins, away_wins, games, game, series, swissVars, deVars, regionalVars, constructVars, statVars>>

\* one iteration of the sudden-death loop: each side gets at least one
\* chance and scores between 0 and ot_chances goals
OvertimeIteration ==
    /\ pc = "game"
    /\ OvertimeLoopCond(home_goals, away_goals)
    /\ \E oh \in 0..MaxOtGoals, oa \in 0..MaxOtGoals :
        /\ oh = oa => home_goals + oh <= MaxTiedScore
        /\ home_goals' = home_goals + oh
        /\ away_goals' = away_goals + oa
    /\ overtime' = TRUE
    /\ UNCHANGED <<pc, best_of, home_wins, away_wins, games, game, series, swissVars, deVars, regionalVars, constructVars, statVars>>

\* simulate_game returns its GameResult; simulate_series appends it and
\* credits the winner (of the games list only each game's winner is kept)
GameReturn ==
    /\ pc = "game"
    /\ ~OvertimeLoopCond(home_goals, away_goals)
    /\ game' = GameResult(home_goals, away_goals, overtime)
    /\ games' = Append(games, Winner(game'))
    /\ IF Winner(game') = "home"
       THEN home_wins' = home_wins + 1 /\ away_wins' = away_wins
       ELSE away_wins' = away_wins + 1 /\ home_wins' = home_wins
    /\ pc' = "loop"
    /\ UNCHANGED <<best_of, home_goals, away_goals, overtime, series, swissVars, deVars, regionalVars, constructVars, statVars>>

\* the series loop exits and the SeriesResult is built
SeriesReturn ==
    /\ pc = "loop"
    /\ ~SeriesLoopCond(home_wins, away_wins, best_of)
    /\ series' = [home_wins |-> home_wins, away_wins |-> away_wins,
                  games |-> games, best_of |-> best_of]
    /\ pc' = "done"
    /\ UNCHANGED <<best_of, home_wins, away_wins, games, game, home_goals, away_goals, overtime, swissVars, deVars, regionalVars, constructVars, statVars>>

NextSeries ==
    \/ SimulateGameRegulation
    \/ OvertimeIteration
    \/ GameReturn
    \/ SeriesReturn

SpecSeries == InitSeries /\ [][NextSeries]_vars

(***************************************************************************)
(* SwissRecord and SwissBracket                                            *)
(***************************************************************************)
\* pool of team ids a bracket is constructed from
AllTeams == <<"A", "B", "C", "D", "E", "F", "G", "H">>

\* SwissRecord.__init__
SwissRecord(tid) ==
    [team_id |-> tid, wins |-> 0, losses |-> 0, game_wins |-> 0,
     game_losses |-> 0, opponents |-> {}, buchholz |-> 0]

record_str_played(r) == <<0, r.wins + r.losses>>
\* SwissRecord.record_str: the key f"{wins}-{losses}"
record_str(r) == <<r.wins, r.losses>>

\* int(r.split('-')[0]) applied to a record_str key
KeyWins(key) == key[1]

\* SwissRecord.game_diff
game_diff(r) == r.game_wins - r.game_losses

\* SwissBracket.__init__; rounds and results are append-only logs that no
\* bracket operation reads back, and are kept as their lengths
SwissBracket(team_ids, wt, lt, bo) ==
    [team_ids |-> team_ids, win_threshold |-> wt, loss_threshold |-> lt,
     best_of |-> bo,
     records |-> [tid \in Range(team_ids) |-> SwissRecord(tid)],
     rounds |-> 0, results |-> 0, current_round |-> 0,
     qualified |-> <<>>, eliminated |-> <<>>, is_complete |-> FALSE]

active_teams_keep_qualified(b) ==
    SelectSeq(b.team_ids, LAMBDA tid : tid \notin Range(b.eliminated))
active_teams_keep_eliminated(b) ==
    SelectSeq(b.team_ids, LAMBDA tid : tid \notin Range(b.qualified))
\* SwissBracket.active_teams
active_teams(b) ==
    SelectSeq(b.team_ids,
              LAMBDA tid : tid \notin Range(b.qualified) /\ tid \notin Range(b.eliminated))

\* the completion check that closes _give_bye and record_result
CheckComplete(b) ==
    IF Len(active_teams(b)) = 0 THEN [b EXCEPT !.is_complete = TRUE] ELSE b

CheckQualifiedFirstOnly(b, tid) ==
    IF b.records[tid].wins >= b.win_threshold /\ b.qualified = <<>>
    THEN [b EXCEPT !.qualified = Append(@, tid)]
    ELSE b
CheckQualifiedAbove(b, tid) ==
    IF b.records[tid].wins > b.win_threshold /\ tid \notin Range(b.qualified)
    THEN [b EXCEPT !.qualified = Append(@, tid)]
    ELSE b
\* the qualification check of _give_bye and record_result
CheckQualified(b, tid) ==
    IF b.records[tid].wins >= b.win_threshold /\ tid \notin Range(b.qualified)
    THEN [b EXCEPT !.qualified = Append(@, tid)]
    ELSE b

\* the elimination check of record_result
CheckEliminated(b, tid) ==
    IF b.records[tid].losses >= b.loss_threshold /\ tid \notin Range(b.eliminated)
    THEN [b EXCEPT !.eliminated = Append(@, tid)]
    ELSE b

\* SwissBracket._give_bye
give_bye_as_played(b, team_id) ==
    LET b1 == [b EXCEPT !.records[team_id].wins = @ + 1,
                        !.records[team_id].game_wins = @ + 3,
                        !.records[team_id].opponents = @ \cup {team_id}]
    IN CheckComplete(CheckQualified(b1, team_id))

give_bye_no_win(b, team_id) ==
    LET b1 == [b EXCEPT !.records[team_id].game_wins = @ + 3]
    IN CheckComplete(CheckQualified(b1, team_id))

give_bye_two_games(b, team_id) ==
    LET b1 == [b EXCEPT !.records[team_id].wins = @ + 1,
                        !.records[team_id].game_wins = @ + 2]
    IN CheckComplete(CheckQualified(b1, team_id))

give_bye(b, team_id) ==
    LET b1 == [b EXCEPT !.records[team_id].wins = @ + 1,
                        !.records[team_id].game_wins = @ + 3]
    IN CheckComplete(CheckQualified(b1, team_id))

record_result_no_loss(b, team1_id, team2_id, team1_games, team2_games) ==
    LET winner_id == IF team1_games > team2_games THEN team1_id ELSE team2_id
        loser_id == IF team1_games > team2_games THEN team2_id ELSE team1_id
        hi == Max(team1_games, team2_games)
        lo == Min(team1_games, team2_games)
        b1 == [b EXCEPT !.records[winner_id].wins = @ + 1,
                        !.records[winner_id].game_wins = @ + hi,
                        !.records[winner_id].game_losses = @ + lo,
                        !.records[winner_id].opponents = @ \cup {loser_id}]
        b2 == [b1 EXCEPT !.records[loser_id].game_wins = @ + lo,
                         !.records[loser_id].game_losses = @ + hi,
                         !.records[loser_id].opponents = @ \cup {winner_id}]
        b3 == CheckComplete(CheckEliminated(CheckQualified(b2, winner_id), loser_id))
    IN [b3 EXCEPT !.results = @ + 1]
\* SwissBracket.record_result
record_result(b, team1_id, team2_id, team1_games, team2_games) ==
    LET winner_id == IF team1_games > team2_games THEN team1_id ELSE team2_id
        loser_id == IF team1_games > team2_games THEN team2_id ELSE team1_id
        hi == Max(team1_games, team2_games)
        lo == Min(team1_games, team2_games)
        b1 == [b EXCEPT !.records[winner_id].wins = @ + 1,
                        !.records[winner_id].game_wins = @ + hi,
                        !.records[winner_id].game_losses = @ + lo,
                        !.records[winner_id].opponents = @ \cup {loser_id}]
        b2 == [b1 EXCEPT !.records[loser_id].losses = @ + 1,
                         !.records[loser_id].game_wins = @ + lo,
                         !.records[loser_id].game_losses = @ + hi,
                         !.records[loser_id].opponents = @ \cup {winner_id}]
        b3 == CheckComplete(CheckEliminated(CheckQualified(b2, winner_id), loser_id))
    IN [b3 EXCEPT !.results = @ + 1]

\* the keys of record_groups in insertion order
RECURSIVE Dedup(_)
Dedup(s) ==
    IF s = <<>> THEN <<>>
    ELSE <<Head(s)>> \o SelectSeq(Dedup(Tail(s)), LAMBDA x : x # Head(s))

\* sorted(record_groups.keys(), key=lambda r: -int(r.split('-')[0])); the
\* sort is stable
RECURSIVE SortedRecords(_)
SortedRecords(keys) ==
    IF keys = <<>> THEN <<>>
    ELSE LET h == Head(keys)
             rest == SortedRecords(Tail(keys))
         IN SelectSeq(rest, LAMBDA r : KeyWins(r) > KeyWins(h))
            \o <<h>>
            \o SelectSeq(rest, LAMBDA r : KeyWins(r) <= KeyWins(h))

\* record_groups as built by the first loop of generate_round_matchups
RecordGroups(b, active) ==
    [key \in {record_str(b.records[tid]) : tid \in Range(active)} |->
        SelectSeq(active, LAMBDA tid : record_str(b.records[tid]) = key)]

\* the list as one shuffle rearranges it: kept as it is, or its first
\* element moved to the end
ShuffledAs(s, how) ==
    IF how = "rotate" /\ s # <<>> THEN Tail(s) \o <<Head(s)>> ELSE s

\* random.shuffle: every ordering of the list; in the regional tournament,
\* whose lists are too long for that, the ordering of the round's draw
Shuffle(s) ==
    IF draw = AnyDraw
    THEN {[i \in 1..Len(s) |-> s[p[i]]] : p \in Permutations(1..Len(s))}
    ELSE {ShuffledAs(s, draw.shuffle)}

\* list with the element at index i removed
RemoveAt(s, i) == SubSeq(s, 1, i - 1) \o SubSeq(s, i + 1, Len(s))

UnplayedAny(b, team1, s) == 1..Len(s)
\* indices of the teams in list s that team1 has not played
Unplayed(b, team1, s) == {i \in 1..Len(s) : s[i] \notin b.records[team1].opponents}

FirstIndex(I) == CHOOSE i \in I : \A j \in I : i <= j

RECURSIVE GroupLoopLastResort(_, _, _, _)
GroupLoopLastResort(b, group, ms, paired) ==
    IF Len(group) < 2 THEN <<group, ms, paired>>
    ELSE LET team1 == group[Len(group)]
             rest == SubSeq(group, 1, Len(group) - 1)
             cand == Unplayed(b, team1, rest)
             at == IF cand # {} THEN FirstIndex(cand) ELSE Len(rest)
         IN GroupLoopLastResort(b, RemoveAt(rest, at),
                                Append(ms, <<team1, rest[at]>>),
                                paired \cup {team1, rest[at]})
\* the while loop that pairs inside one record group; yields the leftover
\* group, the matchups and the paired set
RECURSIVE GroupLoop(_, _, _, _)
GroupLoop(b, group, ms, paired) ==
    IF Len(group) < 2 THEN <<group, ms, paired>>
    ELSE LET team1 == group[Len(group)]
             rest == SubSeq(group, 1, Len(group) - 1)
             cand == Unplayed(b, team1, rest)
         IN IF cand # {}
            THEN LET opponent == rest[FirstIndex(cand)]
                 IN GroupLoop(b, RemoveAt(rest, FirstIndex(cand)),
                              Append(ms, <<team1, opponent>>),
                              paired \cup {team1, opponent})
            ELSE <<(<<team1>> \o rest), ms, paired>>

\* the loop over sorted_records; yields every (matchups, paired) the
\* shuffles can produce
RECURSIVE GroupPass(_, _, _, _, _, _)
GroupPass(b, sorted_records, idx, record_groups, ms, paired) ==
    IF idx > Len(sorted_records) THEN {<<ms, paired>>}
    ELSE LET record == sorted_records[idx]
             group0 == SelectSeq(record_groups[record], LAMBDA t : t \notin paired)
         IN UNION {
              LET res == GroupLoop(b, group, ms, paired)
                  left == res[1]
                  next_idx == idx + 1
                  rg == IF left # <<>> /\ next_idx <= Len(sorted_records)
                        THEN [record_groups EXCEPT ![sorted_records[next_idx]] = @ \o left]
                        ELSE record_groups
              IN GroupPass(b, sorted_records, next_idx, rg, res[2], res[3])
              : group \in Shuffle(group0) }

RECURSIVE FinalLoopNoRematch(_, _, _)
FinalLoopNoRematch(b, unpaired, ms) ==
    IF Len(unpaired) < 2 THEN <<unpaired, ms>>
    ELSE LET team1 == unpaired[Len(unpaired)]
             rest == SubSeq(unpaired, 1, Len(unpaired) - 1)
             cand == Unplayed(b, team1, rest)
         IN IF cand # {}
            THEN FinalLoopNoRematch(b, RemoveAt(rest, FirstIndex(cand)),
                                    Append(ms, <<team1, rest[FirstIndex(cand)]>>))
            ELSE FinalLoopNoRematch(b, rest, ms)
\* the final while loop over the unpaired teams; yields the leftover list
\* and the matchups
RECURSIVE FinalLoop(_, _, _)
FinalLoop(b, unpaired, ms) ==
    IF Len(unpaired) < 2 THEN <<unpaired, ms>>
    ELSE LET team1 == unpaired[Len(unpaired)]
             rest == SubSeq(unpaired, 1, Len(unpaired) - 1)
             cand == Unplayed(b, team1, rest)
         IN IF cand # {}
            THEN FinalLoop(b, RemoveAt(rest, FirstIndex(cand)),
                           Append(ms, <<team1, rest[FirstIndex(cand)]>>))
            ELSE FinalLoop(b, SubSeq(rest, 1, Len(rest) - 1),
                           Append(ms, <<team1, rest[Len(rest)]>>))

generate_round_matchups_counts_round(b) ==
    LET active == active_teams(b)
    IN IF Len(active) < 2
       THEN IF Len(active) = 1
            THEN {[bracket |-> [give_bye(b, active[1]) EXCEPT !.rounds = @ + 1,
                                                              !.current_round = @ + 1],
                   matchups |-> <<>>, bye |-> active[1], group_pairs |-> 0]}
            ELSE {[bracket |-> b, matchups |-> <<>>, bye |-> None, group_pairs |-> 0]}
       ELSE LET record_groups == RecordGroups(b, active)
                keys == Dedup([i \in 1..Len(active) |-> record_str(b.records[active[i]])])
                sorted_records == SortedRecords(keys)
            IN UNION {
                 { LET fin == FinalLoop(b, unpaired, gp[1])
                       b1 == IF Len(fin[1]) = 1 THEN give_bye(b, fin[1][1]) ELSE b
                   IN [bracket |-> [b1 EXCEPT !.rounds = @ + 1,
                                              !.current_round = @ + 1],
                       matchups |-> fin[2],
                       bye |-> IF Len(fin[1]) = 1 THEN fin[1][1] ELSE None,
                       group_pairs |-> Len(gp[1])]
                   : unpaired \in Shuffle(SelectSeq(active, LAMBDA t : t \notin gp[2])) }
                 : gp \in GroupPass(b, sorted_records, 1, record_groups, <<>>, {}) }

\* SwissBracket.generate_round_matchups: every outcome the shuffles can
\* produce, as the bracket after the call, the returned list, the team
\* given the bye and the number of matchups the record-group loop emitted
generate_round_matchups(b) ==
    LET active == active_teams(b)
    IN IF Len(active) < 2
       THEN IF Len(active) = 1
            THEN {[bracket |-> give_bye(b, active[1]), matchups |-> <<>>, bye |-> active[1],
                   group_pairs |-> 0]}
            ELSE {[bracket |-> b, matchups |-> <<>>, bye |-> None, group_pairs |-> 0]}
       ELSE LET record_groups == RecordGroups(b, active)
                keys == Dedup([i \in 1..Len(active) |-> record_str(b.records[active[i]])])
                sorted_records == SortedRecords(keys)
            IN UNION {
                 { LET fin == FinalLoop(b, unpaired, gp[1])
                       b1 == IF Len(fin[1]) = 1 THEN give_bye(b, fin[1][1]) ELSE b
                   IN [bracket |-> [b1 EXCEPT !.rounds = @ + 1,
                                              !.current_round = @ + 1],
                       matchups |-> fin[2],
                       bye |-> IF Len(fin[1]) = 1 THEN fin[1][1] ELSE None,
                       group_pairs |-> Len(gp[1])]
                   : unpaired \in Shuffle(SelectSeq(active, LAMBDA t : t \notin gp[2])) }
                 : gp \in GroupPass(b, sorted_records, 1, record_groups, <<>>, {}) }

\* the (home_wins, away_wins) pairs simulate_series returns for a best_of
SeriesScores(bo) ==
    {s \in (0..WinsNeeded(bo)) \X (0..WinsNeeded(bo)) :
        Max(s[1], s[2]) = WinsNeeded(bo) /\ Min(s[1], s[2]) < WinsNeeded(bo)}

(***************************************************************************)
(* A SwissBracket driven round by round, as Game._run_swiss_round does     *)
(***************************************************************************)
\* largest number of teams in the bracket
NumTeams == 5
\* largest number of generate_round_matchups calls made on one bracket
MaxCalls == 4
\* the win_threshold and loss_threshold values a bracket is built with
Thresholds == {1, 2}

InitSwiss ==
    /\ \E n \in 0..NumTeams, wt \in Thresholds, lt \in Thresholds :
        bracket = SwissBracket(SubSeq(AllTeams, 1, n), wt, lt, 1)
    /\ matchups = <<>>
    /\ bye = None
    /\ recorded = {}
    /\ byes_given = 0
    /\ calls = 0
    /\ pc = Unused /\ best_of = Unused /\ home_wins = Unused /\ away_wins = Unused
    /\ games = Unused /\ game = Unused /\ home_goals = Unused /\ away_goals = Unused
    /\ overtime = Unused /\ series = Unused
    /\ de = Unused
    /\ regional = Unused /\ raised = Unused /\ draw = AnyDraw
    /\ ctor = Unused /\ arg = Unused /\ obj = Unused
    /\ home_stats = Unused /\ away_stats = Unused /\ resolved = Unused

\* _run_swiss_round is entered for a bracket that is not complete and asks
\* for the round's matchups
GenerateRoundMatchups ==
    /\ ~bracket.is_complete
    /\ matchups = <<>>
    /\ calls < MaxCalls
    /\ \E out \in generate_round_matchups(bracket) :
        /\ bracket' = out.bracket
        /\ matchups' = out.matchups
        /\ bye' = out.bye
        /\ byes_given' = IF out.bye # None THEN byes_given + 1 ELSE byes_given
    /\ calls' = calls + 1
    /\ recorded' = {}
    /\ UNCHANGED <<seriesVars, deVars, regionalVars, constructVars, statVars>>

\* the driver records the series result of one returned matchup; with the
\* last result of the round _run_swiss_round returns and its list is gone
RecordResult ==
    /\ \E i \in DOMAIN matchups \ recorded, s \in SeriesScores(bracket.best_of) :
        /\ bracket' = record_result(bracket, matchups[i][1], matchups[i][2], s[1], s[2])
        /\ IF recorded \cup {i} = DOMAIN matchups
           THEN matchups' = <<>> /\ bye' = None /\ recorded' = {}
           ELSE matchups' = matchups /\ bye' = bye /\ recorded' = recorded \cup {i}
    /\ UNCHANGED <<byes_given, calls, seriesVars, deVars, regionalVars, constructVars, statVars>>

NextSwiss ==
    \/ GenerateRoundMatchups
    \/ RecordResult

SpecSwiss == InitSwiss /\ [][NextSwiss]_vars

(***************************************************************************)
(* DoubleEliminationBracket                                                *)
(***************************************************************************)
\* the eight seeded team ids, first seed first
Seeds == <<"S1", "S2", "S3", "S4", "S5", "S6", "S7", "S8">>

\* a match dict; team1_games and team2_games are absent until recorded
Match(match_id, team1, team2) ==
    [match_id |-> match_id, team1 |-> team1, team2 |-> team2,
     winner |-> None, loser |-> None, team1_games |-> None, team2_games |-> None]

DoubleEliminationBracketAdjacent(team_ids, bo) ==
    [team_ids |-> team_ids, best_of |-> bo,
     upper_r1 |-> <<Match("UB_R1_1", team_ids[1], team_ids[2]),
                    Match("UB_R1_2", team_ids[3], team_ids[4]),
                    Match("UB_R1_3", team_ids[5], team_ids[6]),
                    Match("UB_R1_4", team_ids[7], team_ids[8])>>,
     upper_r2 |-> <<Match("UB_SF_1", None, None), Match("UB_SF_2", None, None)>>,
     upper_final |-> Match("UB_F", None, None),
     lower_r1 |-> <<Match("LB_R1_1", None, None), Match("LB_R1_2", None, None)>>,
     lower_r2 |-> <<Match("LB_R2_1", None, None), Match("LB_R2_2", None, None)>>,
     lower_r3 |-> <<Match("LB_SF", None, None)>>,
     lower_final |-> Match("LB_F", None, None),
     grand_final |-> Match("GF", None, None),
     bracket_reset |-> Match("BR", None, None),
     needed |-> FALSE,
     placements |-> <<>>,
     results |-> 0,
     is_complete |-> FALSE,
     current_phase |-> "upper_r1"]
\* DoubleEliminationBracket.__init__; results is kept as its length
DoubleEliminationBracket(team_ids, bo) ==
    [team_ids |-> team_ids, best_of |-> bo,
     upper_r1 |-> <<Match("UB_R1_1", team_ids[1], team_ids[8]),
                    Match("UB_R1_2", team_ids[4], team_ids[5]),
                    Match("UB_R1_3", team_ids[2], team_ids[7]),
                    Match("UB_R1_4", team_ids[3], team_ids[6])>>,
     upper_r2 |-> <<Match("UB_SF_1", None, None), Match("UB_SF_2", None, None)>>,
     upper_final |-> Match("UB_F", None, None),
     lower_r1 |-> <<Match("LB_R1_1", None, None), Match("LB_R1_2", None, None)>>,
     lower_r2 |-> <<Match("LB_R2_1", None, None), Match("LB_R2_2", None, None)>>,
     lower_r3 |-> <<Match("LB_SF", None, None)>>,
     lower_final |-> Match("LB_F", None, None),
     grand_final |-> Match("GF", None, None),
     bracket_reset |-> Match("BR", None, None),
     needed |-> FALSE,
     placements |-> <<>>,
     results |-> 0,
     is_complete |-> FALSE,
     current_phase |-> "upper_r1"]

\* truth value of a team or winner slot
Truthy(x) == x # None

\* all_matches of _find_match
all_matches(d) ==
    d.upper_r1 \o d.upper_r2 \o <<d.upper_final>> \o
    d.lower_r1 \o d.lower_r2 \o d.lower_r3 \o
    <<d.lower_final, d.grand_final, d.bracket_reset>>

\* DoubleEliminationBracket._find_match: the first match with that id
DE_find_match(d, match_id) ==
    LET ms == all_matches(d)
        hits == {i \in DOMAIN ms : ms[i].match_id = match_id}
    IN IF hits = {} THEN None ELSE ms[FirstIndex(hits)]

\* the bracket with the match dict of that id replaced (record_result
\* mutates the dict _find_match returned)
StoreMatch(d, m) ==
    LET id == m.match_id
        InList(l) == [i \in DOMAIN l |-> IF l[i].match_id = id THEN m ELSE l[i]]
    IN [d EXCEPT !.upper_r1 = InList(@), !.upper_r2 = InList(@),
                 !.upper_final = IF @.match_id = id THEN m ELSE @,
                 !.lower_r1 = InList(@), !.lower_r2 = InList(@), !.lower_r3 = InList(@),
                 !.lower_final = IF @.match_id = id THEN m ELSE @,
                 !.grand_final = IF @.match_id = id THEN m ELSE @,
                 !.bracket_reset = IF @.match_id = id THEN m ELSE @]

Unwon(l) == SelectSeq(l, LAMBDA m : m.winner = None)
UnwonSeated(l) == SelectSeq(l, LAMBDA m : m.winner = None /\ Truthy(m.team1))

DE_get_next_matches_ahead(d) ==
    CASE d.current_phase = "upper_r1" -> Unwon(d.upper_r1)
      [] d.current_phase = "upper_r2_lower_r1" ->
            Unwon(d.upper_r2) \o Unwon(d.lower_r1) \o Unwon(<<d.upper_final>>)
      [] d.current_phase = "upper_final_lower_r2" ->
            UnwonSeated(<<d.upper_final>>) \o UnwonSeated(d.lower_r2)
      [] d.current_phase = "lower_sf" -> UnwonSeated(<<d.lower_r3[1]>>)
      [] d.current_phase = "lower_final" -> UnwonSeated(<<d.lower_final>>)
      [] d.current_phase = "grand_final" -> UnwonSeated(<<d.grand_final>>)
      [] d.current_phase = "bracket_reset" ->
            IF d.needed /\ d.bracket_reset.winner = None THEN <<d.bracket_reset>> ELSE <<>>
      [] OTHER -> <<>>
\* DoubleEliminationBracket.get_next_matches
DE_get_next_matches(d) ==
    CASE d.current_phase = "upper_r1" -> Unwon(d.upper_r1)
      [] d.current_phase = "upper_r2_lower_r1" -> Unwon(d.upper_r2) \o Unwon(d.lower_r1)
      [] d.current_phase = "upper_final_lower_r2" ->
            UnwonSeated(<<d.upper_final>>) \o UnwonSeated(d.lower_r2)
      [] d.current_phase = "lower_sf" -> UnwonSeated(<<d.lower_r3[1]>>)
      [] d.current_phase = "lower_final" -> UnwonSeated(<<d.lower_final>>)
      [] d.current_phase = "grand_final" -> UnwonSeated(<<d.grand_final>>)
      [] d.current_phase = "bracket_reset" ->
            IF d.needed /\ d.bracket_reset.winner = None THEN <<d.bracket_reset>> ELSE <<>>
      [] OTHER -> <<>>

DE_set_placement_overwrite(d, team_id, place) ==
    IF place \in DOMAIN d.placements
    THEN [d EXCEPT !.placements[place] = <<team_id>>]
    ELSE [d EXCEPT !.placements = @ @@ (place :> <<team_id>>)]
\* DoubleEliminationBracket._set_placement
DE_set_placement(d, team_id, place) ==
    IF place \in DOMAIN d.placements
    THEN [d EXCEPT !.placements[place] = Append(@, team_id)]
    ELSE [d EXCEPT !.placements = @ @@ (place :> <<team_id>>)]

AllWon(l) == \A i \in DOMAIN l : Truthy(l[i].winner)

DE_update_phase_upper_only(d) ==
    LET p1 == IF AllWon(d.upper_r1) THEN "upper_r2_lower_r1" ELSE d.current_phase
        p2 == IF AllWon(d.upper_r2) THEN "upper_final_lower_r2" ELSE p1
        p3 == IF Truthy(d.upper_final.winner) /\ AllWon(d.lower_r2) THEN "lower_sf" ELSE p2
        p4 == IF Truthy(d.lower_r3[1].winner) THEN "lower_final" ELSE p3
        p5 == IF Truthy(d.lower_final.winner) THEN "grand_final" ELSE p4
        p6 == IF Truthy(d.grand_final.winner) /\ d.needed THEN "bracket_reset" ELSE p5
    IN [d EXCEPT !.current_phase = p6]
DE_update_phase_first_test(d) ==
    LET p == IF AllWon(d.upper_r1) THEN "upper_r2_lower_r1"
             ELSE IF AllWon(d.upper_r2) /\ AllWon(d.lower_r1) THEN "upper_final_lower_r2"
             ELSE IF Truthy(d.upper_final.winner) /\ AllWon(d.lower_r2) THEN "lower_sf"
             ELSE IF Truthy(d.lower_r3[1].winner) THEN "lower_final"
             ELSE IF Truthy(d.lower_final.winner) THEN "grand_final"
             ELSE IF Truthy(d.grand_final.winner) /\ d.needed THEN "bracket_reset"
             ELSE d.current_phase
    IN [d EXCEPT !.current_phase = p]
\* DoubleEliminationBracket._update_phase: each test that holds overwrites
\* the phase set by the ones before it
DE_update_phase(d) ==
    LET p1 == IF AllWon(d.upper_r1) THEN "upper_r2_lower_r1" ELSE d.current_phase
        p2 == IF AllWon(d.upper_r2) /\ AllWon(d.lower_r1) THEN "upper_final_lower_r2" ELSE p1
        p3 == IF Truthy(d.upper_final.winner) /\ AllWon(d.lower_r2) THEN "lower_sf" ELSE p2
        p4 == IF Truthy(d.lower_r3[1].winner) THEN "lower_final" ELSE p3
        p5 == IF Truthy(d.lower_final.winner) THEN "grand_final" ELSE p4
        p6 == IF Truthy(d.grand_final.winner) /\ d.needed THEN "bracket_reset" ELSE p5
    IN [d EXCEPT !.current_phase = p6]

UpperFinalistWonSwapped(d, winner_id) == winner_id = d.grand_final.team2
\* winner_id == self.grand_final['team1'] in the GF branch
UpperFinalistWon(d, winner_id) == winner_id = d.grand_final.team1

DE_advance_bracket_crossed(d, match_id, winner_id, loser_id) ==
    LET d1 ==
        CASE match_id = "UB_R1_1" ->
                [d EXCEPT !.upper_r2[1].team1 = winner_id, !.lower_r1[1].team1 = loser_id]
          [] match_id = "UB_R1_2" ->
                [d EXCEPT !.upper_r2[1].team2 = winner_id, !.lower_r1[2].team1 = loser_id]
          [] match_id = "UB_R1_3" ->
                [d EXCEPT !.upper_r2[2].team1 = winner_id, !.lower_r1[1].team2 = loser_id]
          [] match_id = "UB_R1_4" ->
                [d EXCEPT !.upper_r2[2].team2 = winner_id, !.lower_r1[2].team2 = loser_id]
          [] match_id = "UB_SF_1" ->
                [d EXCEPT !.upper_final.team1 = winner_id, !.lower_r2[2].team2 = loser_id]
          [] match_id = "UB_SF_2" ->
                [d EXCEPT !.upper_final.team2 = winner_id, !.lower_r2[1].team2 = loser_id]
          [] match_id = "UB_F" ->
                [d EXCEPT !.grand_final.team1 = winner_id, !.lower_final.team2 = loser_id]
          [] match_id = "LB_R1_1" ->
                DE_set_placement([d EXCEPT !.lower_r2[1].team1 = winner_id], loser_id, 7)
          [] match_id = "LB_R1_2" ->
                DE_set_placement([d EXCEPT !.lower_r2[2].team1 = winner_id], loser_id, 7)
          [] match_id = "LB_R2_1" ->
                DE_set_placement([d EXCEPT !.lower_r3[1].team1 = winner_id], loser_id, 5)
          [] match_id = "LB_R2_2" ->
                DE_set_placement([d EXCEPT !.lower_r3[1].team2 = winner_id], loser_id, 5)
          [] match_id = "LB_SF" ->
                DE_set_placement([d EXCEPT !.lower_final.team1 = winner_id], loser_id, 4)
          [] match_id = "LB_F" ->
                DE_set_placement([d EXCEPT !.grand_final.team2 = winner_id], loser_id, 3)
          [] match_id = "GF" ->
                IF UpperFinalistWon(d, winner_id)
                THEN [DE_set_placement(DE_set_placement(d, winner_id, 1), loser_id, 2)
                        EXCEPT !.is_complete = TRUE]
                ELSE [d EXCEPT !.needed = TRUE,
                               !.bracket_reset.team1 = d.grand_final.team1,
                               !.bracket_reset.team2 = winner_id]
          [] match_id = "BR" ->
                [DE_set_placement(DE_set_placement(d, winner_id, 1), loser_id, 2)
                    EXCEPT !.is_complete = TRUE]
          [] OTHER -> d
    IN DE_update_phase(d1)
DE_advance_bracket_upper_final_out(d, match_id, winner_id, loser_id) ==
    LET d1 ==
        CASE match_id = "UB_R1_1" ->
                [d EXCEPT !.upper_r2[1].team1 = winner_id, !.lower_r1[1].team1 = loser_id]
          [] match_id = "UB_R1_2" ->
                [d EXCEPT !.upper_r2[1].team2 = winner_id, !.lower_r1[1].team2 = loser_id]
          [] match_id = "UB_R1_3" ->
                [d EXCEPT !.upper_r2[2].team1 = winner_id, !.lower_r1[2].team1 = loser_id]
          [] match_id = "UB_R1_4" ->
                [d EXCEPT !.upper_r2[2].team2 = winner_id, !.lower_r1[2].team2 = loser_id]
          [] match_id = "UB_SF_1" ->
                [d EXCEPT !.upper_final.team1 = winner_id, !.lower_r2[2].team2 = loser_id]
          [] match_id = "UB_SF_2" ->
                [d EXCEPT !.upper_final.team2 = winner_id, !.lower_r2[1].team2 = loser_id]
          [] match_id = "UB_F" ->
                DE_set_placement([d EXCEPT !.grand_final.team1 = winner_id], loser_id, 3)
          [] match_id = "LB_R1_1" ->
                DE_set_placement([d EXCEPT !.lower_r2[1].team1 = winner_id], loser_id, 7)
          [] match_id = "LB_R1_2" ->
                DE_set_placement([d EXCEPT !.lower_r2[2].team1 = winner_id], loser_id, 7)
          [] match_id = "LB_R2_1" ->
                DE_set_placement([d EXCEPT !.lower_r3[1].team1 = winner_id], loser_id, 5)
          [] match_id = "LB_R2_2" ->
                DE_set_placement([d EXCEPT !.lower_r3[1].team2 = winner_id], loser_id, 5)
          [] match_id = "LB_SF" ->
                DE_set_placement([d EXCEPT !.lower_final.team1 = winner_id], loser_id, 4)
          [] match_id = "LB_F" ->
                DE_set_placement([d EXCEPT !.grand_final.team2 = winner_id], loser_id, 3)
          [] match_id = "GF" ->
                IF UpperFinalistWon(d, winner_id)
                THEN [DE_set_placement(DE_set_placement(d, winner_id, 1), loser_id, 2)
                        EXCEPT !.is_complete = TRUE]
                ELSE [d EXCEPT !.needed = TRUE,
                               !.bracket_reset.team1 = d.grand_final.team1,
                               !.bracket_reset.team2 = winner_id]
          [] match_id = "BR" ->
                [DE_set_placement(DE_set_placement(d, winner_id, 1), loser_id, 2)
                    EXCEPT !.is_complete = TRUE]
          [] OTHER -> d
    IN DE_update_phase(d1)
\* DoubleEliminationBracket._advance_bracket
DE_advance_bracket(d, match_id, winner_id, loser_id) ==
    LET d1 ==
        CASE match_id = "UB_R1_1" ->
                [d EXCEPT !.upper_r2[1].team1 = winner_id, !.lower_r1[1].team1 = loser_id]
          [] match_id = "UB_R1_2" ->
                [d EXCEPT !.upper_r2[1].team2 = winner_id, !.lower_r1[1].team2 = loser_id]
          [] match_id = "UB_R1_3" ->
                [d EXCEPT !.upper_r2[2].team1 = winner_id, !.lower_r1[2].team1 = loser_id]
          [] match_id = "UB_R1_4" ->
                [d EXCEPT !.upper_r2[2].team2 = winner_id, !.lower_r1[2].team2 = loser_id]
          [] match_id = "UB_SF_1" ->
                [d EXCEPT !.upper_final.team1 = winner_id, !.lower_r2[2].team2 = loser_id]
          [] match_id = "UB_SF_2" ->
                [d EXCEPT !.upper_final.team2 = winner_id, !.lower_r2[1].team2 = loser_id]
          [] match_id = "UB_F" ->
                [d EXCEPT !.grand_final.team1 = winner_id, !.lower_final.team2 = loser_id]
          [] match_id = "LB_R1_1" ->
                DE_set_placement([d EXCEPT !.lower_r2[1].team1 = winner_id], loser_id, 7)
          [] match_id = "LB_R1_2" ->
                DE_set_placement([d EXCEPT !.lower_r2[2].team1 = winner_id], loser_id, 7)
          [] match_id = "LB_R2_1" ->
                DE_set_placement([d EXCEPT !.lower_r3[1].team1 = winner_id], loser_id, 5)
          [] match_id = "LB_R2_2" ->
                DE_set_placement([d EXCEPT !.lower_r3[1].team2 = winner_id], loser_id, 5)
          [] match_id = "LB_SF" ->
                DE_set_placement([d EXCEPT !.lower_final.team1 = winner_id], loser_id, 4)
          [] match_id = "LB_F" ->
                DE_set_placement([d EXCEPT !.grand_final.team2 = winner_id], loser_id, 3)
          [] match_id = "GF" ->
                IF UpperFinalistWon(d, winner_id)
                THEN [DE_set_placement(DE_set_placement(d, winner_id, 1), loser_id, 2)
                        EXCEPT !.is_complete = TRUE]
                ELSE [d EXCEPT !.needed = TRUE,
                               !.bracket_reset.team1 = d.grand_final.team1,
                               !.bracket_reset.team2 = winner_id]
          [] match_id = "BR" ->
                [DE_set_placement(DE_set_placement(d, winner_id, 1), loser_id, 2)
                    EXCEPT !.is_complete = TRUE]
          [] OTHER -> d
    IN DE_update_phase(d1)

\* DoubleEliminationBracket.record_result for a match id _find_match finds
DE_record_result(d, match_id, winner_id, team1_games, team2_games) ==
    LET match == DE_find_match(d, match_id)
        loser_id == IF winner_id = match.team1 THEN match.team2 ELSE match.team1
        m1 == [match EXCEPT
                 !.winner = winner_id,
                 !.loser = loser_id,
                 !.team1_games = IF match.team1 = winner_id THEN team1_games ELSE team2_games,
                 !.team2_games = IF match.team1 = winner_id THEN team2_games ELSE team1_games]
        d1 == [StoreMatch(d, m1) EXCEPT !.results = @ + 1]
    IN DE_advance_bracket(d1, match_id, winner_id, loser_id)

DE_record_result_call_logged_first(d, match_id, winner_id, team1_games, team2_games) ==
    IF LET ms == all_matches(d) IN \A i \in DOMAIN ms : ms[i].match_id # match_id
    THEN [de |-> [d EXCEPT !.results = @ + 1], raised |-> "ValueError"]
    ELSE [de |-> DE_record_result(d, match_id, winner_id, team1_games, team2_games),
          raised |-> None]
\* DoubleEliminationBracket.record_result for any match id: the bracket it
\* leaves and the exception it raises, None if it returns
DE_record_result_call(d, match_id, winner_id, team1_games, team2_games) ==
    IF LET ms == all_matches(d) IN \A i \in DOMAIN ms : ms[i].match_id # match_id
    THEN [de |-> d, raised |-> "ValueError"]
    ELSE [de |-> DE_record_result(d, match_id, winner_id, team1_games, team2_games),
          raised |-> None]

(***************************************************************************)
(* A DoubleEliminationBracket driven as Game._run_double_elim_round does   *)
(***************************************************************************)
\* match ids that name no slot of the bracket
UnknownMatchIds == {"UB_R1_5", "LB_R3_1", "final"}

InitDE ==
    /\ de = DoubleEliminationBracket(Seeds, 1)
    /\ pc = Unused /\ best_of = Unused /\ home_wins = Unused /\ away_wins = Unused
    /\ games = Unused /\ game = Unused /\ home_goals = Unused /\ away_goals = Unused
    /\ overtime = Unused /\ series = Unused
    /\ bracket = Unused /\ matchups = Unused /\ bye = Unused
    /\ recorded = Unused /\ byes_given = Unused /\ calls = Unused
    /\ regional = Unused /\ raised = None /\ draw = AnyDraw
    /\ ctor = Unused /\ arg = Unused /\ obj = Unused
    /\ home_stats = Unused /\ away_stats = Unused /\ resolved = Unused

\* the driver plays one match returned by get_next_matches (team1 at home)
\* and records the series winner and score; no caller catches the
\* ValueError, so nothing runs after it has been raised
DERecordResult ==
    /\ raised = None
    /\ \E i \in DOMAIN DE_get_next_matches(de), s \in SeriesScores(de.best_of) :
        LET match == DE_get_next_matches(de)[i]
            winner_id == IF s[1] > s[2] THEN match.team1 ELSE match.team2
            out == DE_record_result_call(de, match.match_id, winner_id, s[1], s[2])
        IN /\ Truthy(match.team1) /\ Truthy(match.team2)
           /\ de' = out.de
           /\ raised' = out.raised
    /\ UNCHANGED <<seriesVars, swissVars, regional, draw, constructVars, statVars>>

\* a caller records a result against a match id that names no slot; the
\* lookup comes first, so the winner and the score passed are never read
DERecordUnknown ==
    /\ raised = None
    /\ \E match_id \in UnknownMatchIds :
        LET out == DE_record_result_call(de, match_id, de.team_ids[1], 1, 0)
        IN de' = out.de /\ raised' = out.raised
    /\ UNCHANGED <<seriesVars, swissVars, regional, draw, constructVars, statVars>>

NextDE ==
    \/ DERecordResult
    \/ DERecordUnknown

SpecDE == InitDE /\ [][NextDE]_vars

(***************************************************************************)
(* RegionalTournament                                                      *)
(***************************************************************************)
\* the team ids a regional is constructed with
Entrants ==
    <<"T01", "T02", "T03", "T04", "T05", "T06", "T07", "T08", "T09",
      "T10", "T11", "T12", "T13", "T14", "T15", "T16", "T17", "T18",
      "T19", "T20", "T21", "T22", "T23", "T24", "T25", "T26", "T27",
      "T28", "T29", "T30", "T31", "T32">>

\* REGIONAL_POINTS, placement -> points
REGIONAL_POINTS == <<15, 11, 9, 7, 5, 5, 4, 4, 3, 3, 3, 2, 2, 2, 1, 1>>

PointsForNext(place) ==
    IF place + 1 \in DOMAIN REGIONAL_POINTS THEN REGIONAL_POINTS[place + 1] ELSE 0
\* REGIONAL_POINTS.get(place, 0)
PointsFor(place) == IF place \in DOMAIN REGIONAL_POINTS THEN REGIONAL_POINTS[place] ELSE 0

\* dict[key] = value
Put(dict, key, value) ==
    [k \in DOMAIN dict \cup {key} |-> IF k = key THEN value ELSE dict[k]]

SeedKeyLossesDescending(r) == <<0 - r.wins, 0 - r.losses, 0 - game_diff(r), 0 - r.game_wins>>
\* the sort key of get_qualified_seeded
SeedKey(r) == <<0 - r.wins, r.losses, 0 - game_diff(r), 0 - r.game_wins>>

\* tuple comparison k1 < k2
KeyLess(k1, k2) ==
    \E i \in DOMAIN k1 : k1[i] < k2[i] /\ \A j \in 1..(i - 1) : k1[j] = k2[j]

\* SwissBracket.get_qualified_seeded: the qualified list under a stable sort
get_qualified_seeded(b) ==
    LET q == b.qualified
        key(i) == SeedKey(b.records[q[i]])
        rank(i) == 1 + Cardinality({j \in DOMAIN q :
                        KeyLess(key(j), key(i)) \/ (key(j) = key(i) /\ j < i)})
    IN [n \in DOMAIN q |-> q[CHOOSE i \in DOMAIN q : rank(i) = n]]

\* a call of get_qualified_seeded: the bracket after it and the list
\* returned (the sort works on a list built for the call)
get_qualified_seeded_call(b) ==
    [bracket |-> b, seeded |-> get_qualified_seeded(b)]

\* RegionalTournament.__post_init__ with the outcome of its shuffle
RegionalTournament(teams, shuffled) ==
    [teams |-> teams,
     swiss_group_a |-> SwissBracket(SubSeq(shuffled, 1, 16), 3, 3, 5),
     swiss_group_b |-> SwissBracket(SubSeq(shuffled, 17, Len(shuffled)), 3, 3, 5),
     swiss_playoffs |-> None,
     double_elim |-> None,
     current_stage |-> "swiss_groups",
     final_placements |-> <<>>,
     points_earned |-> <<>>]

GroupPlaceFrom16(final_placements) ==
    16 + Cardinality({t \in DOMAIN final_placements : final_placements[t] >= 17})
\* place = 17 + len([t for t in final_placements if final_placements[t] >= 17])
GroupPlace(final_placements) ==
    17 + Cardinality({t \in DOMAIN final_placements : final_placements[t] >= 17})

GroupEliminatedAllTeams(r) == r.swiss_group_a.team_ids \o r.swiss_group_b.team_ids
\* self.swiss_group_a.eliminated + self.swiss_group_b.eliminated
GroupEliminated(r) == r.swiss_group_a.eliminated \o r.swiss_group_b.eliminated

\* the loop over the teams eliminated in the groups
RECURSIVE PlaceGroupEliminated(_, _)
PlaceGroupEliminated(r, tids) ==
    IF tids = <<>> THEN r
    ELSE LET tid == Head(tids)
             place == GroupPlace(r.final_placements)
         IN PlaceGroupEliminated(
                [r EXCEPT !.final_placements = Put(@, tid, Min(place, 32)),
                          !.points_earned = Put(@, tid, 0)],
                Tail(tids))

\* the loop for i in range(8) that interleaves the two seeded lists, from
\* i on (i counts from 1)
RECURSIVE PlayoffTeams(_, _, _)
PlayoffTeams(qualified_a, qualified_b, i) ==
    IF i > 8 THEN <<>>
    ELSE (IF i <= Len(qualified_a) THEN <<qualified_a[i]>> ELSE <<>>)
         \o (IF i <= Len(qualified_b) THEN <<qualified_b[i]>> ELSE <<>>)
         \o PlayoffTeams(qualified_a, qualified_b, i + 1)

PlayoffPlaceAscending(i) == 9 + i
\* place = 16 - i for the team at index i of enumerate(eliminated)
PlayoffPlace(i) == 16 - i

\* the loop over enumerate(eliminated) of the playoff bracket, from index i
\* on (i counts from 1)
RECURSIVE PlacePlayoffEliminated(_, _, _)
PlacePlayoffEliminated(r, eliminated, i) ==
    IF i > Len(eliminated) THEN r
    ELSE LET place == PlayoffPlace(i - 1)
         IN PlacePlayoffEliminated(
                [r EXCEPT !.final_placements = Put(@, eliminated[i], place),
                          !.points_earned = Put(@, eliminated[i], PointsFor(place))],
                eliminated, i + 1)

\* the loops over get_placements().items() and the teams of each place
RECURSIVE PlaceBracketTeams(_, _, _)
PlaceBracketTeams(r, placements, pairs) ==
    IF pairs = {} THEN r
    ELSE LET pr == CHOOSE x \in pairs : TRUE
             place == pr[1]
             tid == placements[place][pr[2]]
         IN PlaceBracketTeams(
                [r EXCEPT !.final_placements = Put(@, tid, place),
                          !.points_earned = Put(@, tid, PointsFor(place))],
                placements, pairs \ {pr})

DoubleElimCompleteUnchecked(r) == TRUE
\* if self.double_elim.is_complete
DoubleElimComplete(r) == r.double_elim.is_complete

\* RegionalTournament.advance_stage: the regional it leaves and the
\* exception it raises, None if it returns
advance_stage(r) ==
    CASE r.current_stage = "swiss_groups" ->
            IF r.swiss_group_a.is_complete /\ r.swiss_group_b.is_complete
            THEN LET r1 == PlaceGroupEliminated(r, GroupEliminated(r))
                     qualified_a == get_qualified_seeded(r.swiss_group_a)
                     qualified_b == get_qualified_seeded(r.swiss_group_b)
                     playoff_teams == PlayoffTeams(qualified_a, qualified_b, 1)
                 IN [regional |-> [r1 EXCEPT
                                     !.swiss_playoffs = SwissBracket(playoff_teams, 3, 3, 5),
                                     !.current_stage = "swiss_playoffs"],
                     raised |-> None]
            ELSE [regional |-> r, raised |-> None]
      [] r.current_stage = "swiss_playoffs" ->
            IF r.swiss_playoffs.is_complete
            THEN LET r1 == PlacePlayoffEliminated(r, r.swiss_playoffs.eliminated, 1)
                     qualified == get_qualified_seeded(r.swiss_playoffs)
                 IN IF Len(qualified) # 8
                    THEN [regional |-> r1, raised |-> "ValueError"]
                    ELSE [regional |-> [r1 EXCEPT
                                          !.double_elim = DoubleEliminationBracket(qualified, 7),
                                          !.current_stage = "double_elim"],
                          raised |-> None]
            ELSE [regional |-> r, raised |-> None]
      [] r.current_stage = "double_elim" ->
            IF DoubleElimComplete(r)
            THEN LET placements == r.double_elim.placements
                     pairs == {pr \in (DOMAIN placements) \X (1..8) :
                                 pr[2] \in DOMAIN placements[pr[1]]}
                 IN [regional |-> [PlaceBracketTeams(r, placements, pairs) EXCEPT
                                     !.current_stage = "complete"],
                     raised |-> None]
            ELSE [regional |-> r, raised |-> None]
      [] OTHER -> [regional |-> r, raised |-> None]

(***************************************************************************)
(* A RegionalTournament driven by Game._simulate_tournament_round          *)
(***************************************************************************)
\* the random draws of one round: how each shuffle of the round rearranges
\* its list, and which side wins the series of the round
Draws == {[shuffle |-> "keep", winner |-> "home"],
          [shuffle |-> "rotate", winner |-> "away"]}

\* (home_wins, away_wins) of a series of the round: a sweep by the home
\* side or a full-distance win of the away side
SeriesDrawn(bo) ==
    IF draw.winner = "home" THEN <<WinsNeeded(bo), 0>>
    ELSE <<WinsNeeded(bo) - 1, WinsNeeded(bo)>>

\* the loop of _run_swiss_round over the matchups, in list order
RECURSIVE RecordMatchups(_, _)
RecordMatchups(b, ms) ==
    IF ms = <<>> THEN b
    ELSE LET s == SeriesDrawn(b.best_of)
         IN RecordMatchups(record_result(b, Head(ms)[1], Head(ms)[2], s[1], s[2]), Tail(ms))

\* Game._run_swiss_round: the brackets it can leave
run_swiss_round(b) ==
    IF b.is_complete THEN {b}
    ELSE {RecordMatchups(out.bracket, out.matchups) : out \in generate_round_matchups(b)}

\* the loop of _run_double_elim_round over the matches get_next_matches
\* returned
RECURSIVE PlayMatches(_, _)
PlayMatches(d, matches) ==
    IF matches = <<>> THEN d
    ELSE LET match == DE_find_match(d, Head(matches).match_id)
             s == SeriesDrawn(d.best_of)
             winner_id == IF s[1] > s[2] THEN match.team1 ELSE match.team2
         IN IF ~Truthy(match.team1) \/ ~Truthy(match.team2)
            THEN PlayMatches(d, Tail(matches))
            ELSE PlayMatches(DE_record_result(d, match.match_id, winner_id, s[1], s[2]),
                             Tail(matches))

\* Game._run_double_elim_round
run_double_elim_round(d) == PlayMatches(d, DE_get_next_matches(d))

\* Game.start_regional: the regional is constructed from the 32 teams
InitRegional ==
    /\ draw \in Draws
    /\ \E shuffled \in Shuffle(Entrants) :
        regional = RegionalTournament(Entrants, shuffled)
    /\ raised = None
    /\ pc = Unused /\ best_of = Unused /\ home_wins = Unused /\ away_wins = Unused
    /\ games = Unused /\ game = Unused /\ home_goals = Unused /\ away_goals = Unused
    /\ overtime = Unused /\ series = Unused
    /\ bracket = Unused /\ matchups = Unused /\ bye = Unused
    /\ recorded = Unused /\ byes_given = Unused /\ calls = Unused
    /\ de = Unused
    /\ ctor = Unused /\ arg = Unused /\ obj = Unused
    /\ home_stats = Unused /\ away_stats = Unused /\ resolved = Unused

\* the regional after the driver's call of advance_stage, made once the
\* brackets of the stage are complete
AfterRound(r, stage_complete) ==
    IF stage_complete THEN advance_stage(r) ELSE [regional |-> r, raised |-> None]

\* _simulate_tournament_round in stage swiss_groups
RoundSwissGroups ==
    /\ regional.current_stage = "swiss_groups"
    /\ \E a \in run_swiss_round(regional.swiss_group_a),
          b \in run_swiss_round(regional.swiss_group_b) :
        LET r == [regional EXCEPT !.swiss_group_a = a, !.swiss_group_b = b]
            out == AfterRound(r, a.is_complete /\ b.is_complete)
        IN regional' = out.regional /\ raised' = out.raised
    /\ draw' \in Draws
    /\ UNCHANGED <<seriesVars, swissVars, deVars, constructVars, statVars>>

\* _simulate_tournament_round in stage swiss_playoffs
RoundSwissPlayoffs ==
    /\ regional.current_stage = "swiss_playoffs"
    /\ \E b \in run_swiss_round(regional.swiss_playoffs) :
        LET r == [regional EXCEPT !.swiss_playoffs = b]
            out == AfterRound(r, b.is_complete)
        IN regional' = out.regional /\ raised' = out.raised
    /\ draw' \in Draws
    /\ UNCHANGED <<seriesVars, swissVars, deVars, constructVars, statVars>>

\* _simulate_tournament_round in stage double_elim
RoundDoubleElim ==
    /\ regional.current_stage = "double_elim"
    /\ LET d == run_double_elim_round(regional.double_elim)
           r == [regional EXCEPT !.double_elim = d]
           out == AfterRound(r, d.is_complete)
       IN regional' = out.regional /\ raised' = out.raised
    /\ draw' \in Draws
    /\ UNCHANGED <<seriesVars, swissVars, deVars, constructVars, statVars>>

NextRegional ==
    \/ RoundSwissGroups
    \/ RoundSwissPlayoffs
    \/ RoundDoubleElim

SpecRegional == InitRegional /\ [][NextRegional]_vars

(***************************************************************************)
(* Constructor calls                                                       *)
(***************************************************************************)
\* no object: the constructor has not been called, or it raised
NoObject == [object |-> FALSE]

\* longest team list passed to a constructor
MaxTeamList == 33

\* the team ids the lists are made of
TeamPool == Entrants \o <<"T33", "T34">>

\* SwissBracket(team_ids, ...): the object produced and the exception
\* raised; __init__ does not look at the length of the list
new_SwissBracket(team_ids, wt, lt, bo) ==
    [obj |-> SwissBracket(team_ids, wt, lt, bo), raised |-> None]

new_DoubleEliminationBracket_at_least(team_ids, bo) ==
    IF Len(team_ids) < 8
    THEN [obj |-> NoObject, raised |-> "ValueError"]
    ELSE [obj |-> DoubleEliminationBracket(team_ids, bo), raised |-> None]
\* DoubleEliminationBracket(team_ids, best_of): the object produced and the
\* exception raised
new_DoubleEliminationBracket(team_ids, bo) ==
    IF Len(team_ids) # 8
    THEN [obj |-> NoObject, raised |-> "ValueError"]
    ELSE [obj |-> DoubleEliminationBracket(team_ids, bo), raised |-> None]

\* RegionalTournament(teams): the objects it can produce and the exception
\* raised
new_RegionalTournament(teams) ==
    IF Len(teams) # 32
    THEN {[obj |-> NoObject, raised |-> "ValueError"]}
    ELSE {[obj |-> RegionalTournament(teams, shuffled), raised |-> None] :
            shuffled \in Shuffle(teams)}

\* a caller holds a team list of 0 to MaxTeamList teams
InitConstruct ==
    /\ ctor = None
    /\ arg \in {SubSeq(TeamPool, 1, n) : n \in 0..MaxTeamList}
    /\ obj = NoObject
    /\ raised = None
    /\ draw \in Draws
    /\ pc = Unused /\ best_of = Unused /\ home_wins = Unused /\ away_wins = Unused
    /\ games = Unused /\ game = Unused /\ home_goals = Unused /\ away_goals = Unused
    /\ overtime = Unused /\ series = Unused
    /\ bracket = Unused /\ matchups = Unused /\ bye = Unused
    /\ recorded = Unused /\ byes_given = Unused /\ calls = Unused
    /\ de = Unused
    /\ regional = Unused
    /\ home_stats = Unused /\ away_stats = Unused /\ resolved = Unused

\* SwissBracket(arg, win_threshold, loss_threshold)
NewSwissBracket ==
    /\ ctor = None
    /\ ctor' = "SwissBracket"
    /\ \E wt \in Thresholds, lt \in Thresholds :
        LET out == new_SwissBracket(arg, wt, lt, 5)
        IN obj' = out.obj /\ raised' = out.raised
    /\ UNCHANGED <<seriesVars, swissVars, deVars, regional, draw, arg, statVars>>

\* DoubleEliminationBracket(arg)
NewDoubleEliminationBracket ==
    /\ ctor = None
    /\ ctor' = "DoubleEliminationBracket"
    /\ LET out == new_DoubleEliminationBracket(arg, 7)
       IN obj' = out.obj /\ raised' = out.raised
    /\ UNCHANGED <<seriesVars, swissVars, deVars, regional, draw, arg, statVars>>

\* RegionalTournament(teams=arg)
NewRegionalTournament ==
    /\ ctor = None
    /\ ctor' = "RegionalTournament"
    /\ \E out \in new_RegionalTournament(arg) :
        obj' = out.obj /\ raised' = out.raised
    /\ UNCHANGED <<seriesVars, swissVars, deVars, regional, draw, arg, statVars>>

NextConstruct ==
    \/ NewSwissBracket
    \/ NewDoubleEliminationBracket
    \/ NewRegionalTournament

SpecConstruct == InitConstruct /\ [][NextConstruct]_vars

(***************************************************************************)
(* MatchEngine.simulate_game with the players' stat lines                  *)
(***************************************************************************)
\* smallest number of chances _generate_chances returns
MinChances == 5
\* largest number of chances _generate_chances returns
MaxChances == 5
\* largest number of players of a side (attacking_players[:3])
MaxPlayers == 2
\* largest number of overtime iterations that leave the game tied
MaxTiedOvertimes == 1

\* PlayerMatchStats(player_id); saves, demos and rating are not kept: only
\* _distribute_saves and _calculate_ratings write them, on the way out
PlayerMatchStats == [goals |-> 0, assists |-> 0, shots |-> 0]

\* one pass of the loop of _resolve_chances over r = (goals, stats): the
\* attacker takes the shot, scores or not, and a goal is assisted or not by
\* another player; a side scores at most max_goals goals in the call
ResolveChance(r, max_goals) ==
    LET players == DOMAIN r.stats
        Shot(a) == [r EXCEPT !.stats[a].shots = @ + 1]
        Goal(a) == [Shot(a) EXCEPT !.goals = @ + 1, !.stats[a].goals = @ + 1]
    IN {Shot(a) : a \in players}
       \cup (IF r.goals < max_goals
             THEN {Goal(a) : a \in players}
                  \cup {[Goal(p[1]) EXCEPT !.stats[p[2]].assists = @ + 1] :
                            p \in {q \in players \X players : q[1] # q[2]}}
             ELSE {})

\* _resolve_chances: every (goals, stats) pair the draws can produce
RECURSIVE resolve_chances(_, _, _)
resolve_chances(num_chances, num_players, max_goals) ==
    IF num_chances = 0
    THEN {[goals |-> 0, stats |-> [i \in 1..num_players |-> PlayerMatchStats]]}
    ELSE UNION {ResolveChance(r, max_goals) :
                    r \in resolve_chances(num_chances - 1, num_players, max_goals)}

\* the chance counts of an overtime iteration: max(1, chances // 3)
OvertimeChances == {Max(1, c \div 3) : c \in MinChances..MaxChances}

\* the "Merge OT stats" loops of simulate_game
MergeOvertimeStats(stats, ot_stats) ==
    [i \in DOMAIN stats |->
        [stats[i] EXCEPT !.goals = @ + ot_stats[i].goals,
                         !.shots = @ + ot_stats[i].shots]]

\* the stats a side's _resolve_chances calls returned, summed field by field
AddStats(stats, more) ==
    [i \in DOMAIN stats |->
        [goals |-> stats[i].goals + more[i].goals,
         assists |-> stats[i].assists + more[i].assists,
         shots |-> stats[i].shots + more[i].shots]]

\* GameResult(home_score, away_score, home_stats, away_stats, overtime)
GameResultStats(hg, ag, hs, as, ot) ==
    [home_score |-> hg, away_score |-> ag, home_stats |-> hs, away_stats |-> as,
     overtime |-> ot]

\* simulate_game entered; the two sides have not resolved their chances
InitGame ==
    /\ pc = "home"
    /\ home_goals = 0
    /\ away_goals = 0
    /\ overtime = FALSE
    /\ game = None
    /\ home_stats = <<>>
    /\ away_stats = <<>>
    /\ resolved = [home |-> <<>>, away |-> <<>>, overtimes |-> 0]
    /\ best_of = Unused /\ home_wins = Unused /\ away_wins = Unused
    /\ games = Unused /\ series = Unused
    /\ bracket = Unused /\ matchups = Unused /\ bye = Unused
    /\ recorded = Unused /\ byes_given = Unused /\ calls = Unused
    /\ de = Unused
    /\ regional = Unused /\ raised = Unused /\ draw = AnyDraw
    /\ ctor = Unused /\ arg = Unused /\ obj = Unused

\* home_goals, home_stats = self._resolve_chances(home_chances, ...)
ResolveHome ==
    /\ pc = "home"
    /\ \E n \in MinChances..MaxChances, players \in 1..MaxPlayers :
        \E r \in resolve_chances(n, players, MaxGoals) :
            /\ home_goals' = r.goals
            /\ home_stats' = r.stats
            /\ resolved' = [resolved EXCEPT !.home = r.stats]
    /\ pc' = "away"
    /\ UNCHANGED <<best_of, home_wins, away_wins, games, game, away_goals, overtime, series,
                   away_stats, swissVars, deVars, regionalVars, constructVars>>

\* away_goals, away_stats = self._resolve_chances(away_chances, ...)
ResolveAway ==
    /\ pc = "away"
    /\ \E n \in MinChances..MaxChances, players \in 1..MaxPlayers :
        \E r \in resolve_chances(n, players, MaxGoals) :
            /\ away_goals' = r.goals
            /\ away_stats' = r.stats
            /\ resolved' = [resolved EXCEPT !.away = r.stats]
    /\ pc' = "tied"
    /\ UNCHANGED <<best_of, home_wins, away_wins, games, game, home_goals, overtime, series,
                   home_stats, swissVars, deVars, regionalVars, constructVars>>

\* one iteration of the overtime loop: both sides resolve their overtime
\* chances, the stats are merged and the goals added
OvertimeMerge ==
    /\ pc = "tied"
    /\ OvertimeLoopCond(home_goals, away_goals)
    /\ \E hc \in OvertimeChances, ac \in OvertimeChances :
        \E oh \in resolve_chances(hc, Len(home_stats), MaxOtGoals),
           oa \in resolve_chances(ac, Len(away_stats), MaxOtGoals) :
            /\ oh.goals = oa.goals =>
                    /\ home_goals + oh.goals <= MaxTiedScore
                    /\ resolved.overtimes < MaxTiedOvertimes
            /\ home_stats' = MergeOvertimeStats(home_stats, oh.stats)
            /\ away_stats' = MergeOvertimeStats(away_stats, oa.stats)
            /\ home_goals' = home_goals + oh.goals
            /\ away_goals' = away_goals + oa.goals
            /\ resolved' = [home |-> AddStats(resolved.home, oh.stats),
                            away |-> AddStats(resolved.away, oa.stats),
                            overtimes |-> resolved.overtimes + 1]
    /\ overtime' = TRUE
    /\ UNCHANGED <<pc, best_of, home_wins, away_wins, games, game, series,
                   swissVars, deVars, regionalVars, constructVars>>

\* the loop has ended and simulate_game returns its GameResult
SimulateGameReturn ==
    /\ pc = "tied"
    /\ ~OvertimeLoopCond(home_goals, away_goals)
    /\ game' = GameResultStats(home_goals, away_goals, home_stats, away_stats, overtime)
    /\ pc' = "returned"
    /\ UNCHANGED <<best_of, home_wins, away_wins, games, home_goals, away_goals, overtime,
                   series, statVars, swissVars, deVars, regionalVars, constructVars>>

NextGame ==
    \/ ResolveHome
    \/ ResolveAway
    \/ OvertimeMerge
    \/ SimulateGameReturn

SpecGame == InitGame /\ [][NextGame]_vars

(***************************************************************************)
(* Properties of the DoubleEliminationBracket                              *)
(***************************************************************************)
Placed(place) == IF place \in DOMAIN de.placements THEN de.placements[place] ELSE <<>>

\* C9: in a complete bracket one team holds placement 1, one placement 2,
\* one 3, one 4, two the 5th-6th band, two the 7th-8th band, and these are
\* the eight seeds, each placed once.
CompletePlacements ==
    de.is_complete =>
        /\ DOMAIN de.placements = {1, 2, 3, 4, 5, 7}
        /\ \A place \in {1, 2, 3, 4} : Len(Placed(place)) = 1
        /\ \A place \in {5, 7} : Len(Placed(place)) = 2
        /\ UNION {Range(Placed(place)) : place \in 1..8} = Range(de.team_ids)
        /\ \A place \in 1..8 : NoDuplicates(Placed(place))
        /\ \A p, q \in 1..8 : p # q => Range(Placed(p)) \cap Range(Placed(q)) = {}

\* a bracket completed by the bracket reset
CompleteWitness ==
    /\ de.is_complete
    /\ Truthy(de.bracket_reset.winner)
    /\ Placed(1) = <<de.bracket_reset.winner>>

Offered(d, match_id) == \E i \in DOMAIN DE_get_next_matches(d) :
                            DE_get_next_matches(d)[i].match_id = match_id

\* C10: the bracket reset is needed and offered exactly when the grand
\* final was won by its team2; when team1 won it the bracket is complete
\* and the reset is not offered.
ResetIffLowerFinalistWon ==
    /\ de.needed <=> (Truthy(de.grand_final.winner)
                        /\ de.grand_final.winner = de.grand_final.team2)
    /\ Offered(de, "BR") <=> (de.needed /\ ~Truthy(de.bracket_reset.winner))
    /\ Offered(de, "BR") => Truthy(de.bracket_reset.team1) /\ Truthy(de.bracket_reset.team2)
    /\ (Truthy(de.grand_final.winner) /\ de.grand_final.winner = de.grand_final.team1) =>
            /\ de.is_complete
            /\ DE_get_next_matches(de) = <<>>
            /\ ~Truthy(de.bracket_reset.winner)
    /\ Truthy(de.bracket_reset.winner) => de.needed

\* the grand final went to the lower-bracket finalist and the reset is the
\* one match offered
ResetWitness ==
    /\ de.needed
    /\ DE_get_next_matches(de) = <<de.bracket_reset>>
    /\ ~de.is_complete

\* the placement lists of d fill worst band first
BandsInOrder(d) ==
    LET P(place) == IF place \in DOMAIN d.placements THEN d.placements[place] ELSE <<>>
    IN /\ P(5) # <<>> => Len(P(7)) = 2
       /\ P(4) # <<>> => Len(P(5)) = 2
       /\ P(3) # <<>> => Len(P(4)) = 1
       /\ (P(1) # <<>> \/ P(2) # <<>>) => Len(P(3)) = 1

\* C11: placements are assigned in the order 7th-8th, 5th-6th, 4th, 3rd,
\* then 1st and 2nd: no step gives a team a better band while a worse band
\* is incomplete, and no step changes or removes an assigned placement.
PlacementsInOrderAndKept ==
    [][/\ BandsInOrder(de')
       /\ DOMAIN de.placements \subseteq DOMAIN de'.placements
       /\ \A place \in DOMAIN de.placements :
            IsPrefix(de.placements[place], de'.placements[place])]_vars

\* a bracket the grand final completed, every band filled
PlacementsInOrderWitness ==
    /\ de.is_complete
    /\ ~de.needed
    /\ Len(Placed(7)) = 2 /\ Len(Placed(5)) = 2
    /\ Placed(1) = <<de.grand_final.team1>>

(***************************************************************************)
(* Properties of the SwissBracket                                          *)
(***************************************************************************)
Teams == Range(bracket.team_ids)

\* the teams of the matchups at the given indices
TeamsOf(I) == UNION {{matchups[i][1], matchups[i][2]} : i \in I}

\* the teams that were active when the last round was generated
ActiveAtCall == TeamsOf(DOMAIN matchups) \cup (IF bye = None THEN {} ELSE {bye})

\* matchup i pairs two teams that had already met when it was generated
IsRematch(i) == matchups[i][2] \in bracket.records[matchups[i][1]].opponents

HasPlayed(t, u) == u \in bracket.records[t].opponents

\* C7: a returned matchup is a rematch only if every other team active at
\* the call had already played at least one of the two.
RematchOnlyIfAllOthersPlayed ==
    recorded = {} =>
        \A i \in DOMAIN matchups :
            IsRematch(i) =>
                \A t \in ActiveAtCall \ {matchups[i][1], matchups[i][2]} :
                    HasPlayed(t, matchups[i][1]) \/ HasPlayed(t, matchups[i][2])

\* C7 as amended: a returned matchup is a rematch only if its first team
\* had already played every team that was still unpaired when the pair was
\* formed: its opponent, the teams of the later matchups and the bye team.
RematchOnlyAsLastResort ==
    recorded = {} =>
        \A i \in DOMAIN matchups :
            IsRematch(i) =>
                \A t \in (ActiveAtCall \ TeamsOf(1..i)) \cup {matchups[i][2]} :
                    HasPlayed(matchups[i][1], t)

\* a fresh round holding a rematch next to a pair of teams that had not met
RematchWitness ==
    /\ recorded = {}
    /\ \E i, j \in DOMAIN matchups : IsRematch(i) /\ ~IsRematch(j)

RECURSIVE Sum(_, _)
Sum(f, S) ==
    IF S = {} THEN 0
    ELSE LET x == CHOOSE x \in S : TRUE IN f[x] + Sum(f, S \ {x})

TotalWins == Sum([t \in Teams |-> bracket.records[t].wins], Teams)
TotalLosses == Sum([t \in Teams |-> bracket.records[t].losses], Teams)

\* C3: the wins of all teams sum to the losses of all teams plus the
\* number of byes given so far.
WinsEqualLossesPlusByes == TotalWins = TotalLosses + byes_given

\* a bracket that has recorded results and given more than one bye
WinsLossesWitness ==
    /\ byes_given >= 2
    /\ TotalLosses >= 3

\* C4: no team is in both the qualified list and the eliminated list.
QualifiedEliminatedDisjoint ==
    Range(bracket.qualified) \cap Range(bracket.eliminated) = {}

\* a complete bracket with qualified and eliminated teams
DisjointWitness ==
    /\ bracket.is_complete
    /\ Len(bracket.qualified) >= 2
    /\ Len(bracket.eliminated) >= 2

Settled(b) == Range(b.qualified) \cup Range(b.eliminated)

\* C5: qualification and elimination are final: a team is at most once in
\* each list, no step removes a team from either list, and a team in either
\* list is in no matchup of a later round and is given no later bye.
QualificationFinal ==
    [][/\ IsPrefix(bracket.qualified, bracket'.qualified)
       /\ IsPrefix(bracket.eliminated, bracket'.eliminated)
       /\ NoDuplicates(bracket'.qualified)
       /\ NoDuplicates(bracket'.eliminated)
       /\ recorded' = {} =>
            /\ \A i \in DOMAIN matchups' :
                 matchups'[i][1] \notin Settled(bracket) /\ matchups'[i][2] \notin Settled(bracket)
            /\ bye' \notin Settled(bracket)]_vars

\* a round generated after teams have qualified and been eliminated
LaterRoundWitness ==
    /\ recorded = {}
    /\ matchups # <<>>
    /\ bracket.qualified # <<>>
    /\ bracket.eliminated # <<>>
    /\ bye # None

\* C6: no team has more wins than win_threshold or more losses than
\* loss_threshold.
WithinThresholds ==
    \A t \in Teams :
        /\ bracket.records[t].wins <= bracket.win_threshold
        /\ bracket.records[t].losses <= bracket.loss_threshold

\* a team has qualified through a bye and another has been eliminated
ThresholdWitness ==
    /\ bye # None
    /\ bye \in Range(bracket.qualified)
    /\ bracket.records[bye].wins = bracket.win_threshold
    /\ bracket.win_threshold >= 2
    /\ \E t \in Teams : bracket.records[t].losses = bracket.loss_threshold

\* round 1 of the four-team bracket paired A with B and C with D, A and C
\* won, and round 2 has just been generated
ScenarioRound2 ==
    /\ bracket.team_ids = <<"A", "B", "C", "D">>
    /\ bracket.win_threshold = 2
    /\ bracket.loss_threshold = 2
    /\ bracket.current_round = 2
    /\ recorded = {}
    /\ bracket.records["A"].wins = 1 /\ bracket.records["A"].opponents = {"B"}
    /\ bracket.records["C"].wins = 1 /\ bracket.records["C"].opponents = {"D"}

\* C8: in that scenario round 2 pairs A with C and B with D, whatever the
\* shuffles.
ScenarioPairsByRecord ==
    ScenarioRound2 =>
        {{matchups[i][1], matchups[i][2]} : i \in DOMAIN matchups} = {{"A", "C"}, {"B", "D"}}

\* round 2 of the scenario has been generated with A against C
ScenarioWitness ==
    /\ ScenarioRound2
    /\ Len(matchups) = 2
    /\ \E i \in DOMAIN matchups : {matchups[i][1], matchups[i][2]} = {"A", "C"}

\* C1: every SeriesResult returned by simulate_series has home_wins +
\* away_wins equal to the number of games, the larger win count equal to
\* floor(best_of/2)+1 and the other win count strictly smaller.
SeriesResultInvariant ==
    pc = "done" =>
        /\ series.home_wins + series.away_wins = Len(series.games)
        /\ Max(series.home_wins, series.away_wins) = (series.best_of \div 2) + 1
        /\ Min(series.home_wins, series.away_wins) < Max(series.home_wins, series.away_wins)

\* a returned series of an even best_of that went the full distance
SeriesResultWitness ==
    /\ pc = "done"
    /\ series.best_of = 4
    /\ Len(series.games) = 5
    /\ series.away_wins = 3

\* C2: no GameResult has equal scores; a game is returned only once the
\* scores differ, and a game whose regulation ended tied went to overtime.
NoTiedGameResult ==
    /\ games # <<>> => game.home_score # game.away_score
    /\ pc = "game" /\ home_goals = away_goals => ENABLED OvertimeIteration /\ ~ENABLED GameReturn

\* a game that was tied after regulation and after one overtime iteration
\* has been returned
OvertimeGameWitness ==
    /\ games # <<>>
    /\ game.overtime
    /\ game.home_score + game.away_score >= 3

(***************************************************************************)
(* Properties of the RegionalTournament                                    *)
(***************************************************************************)
\* the brackets of the stage r is in all report is_complete
ActiveComplete(r) ==
    CASE r.current_stage = "swiss_groups" ->
            r.swiss_group_a.is_complete /\ r.swiss_group_b.is_complete
      [] r.current_stage = "swiss_playoffs" -> r.swiss_playoffs.is_complete
      [] r.current_stage = "double_elim" -> r.double_elim.is_complete
      [] OTHER -> FALSE

NextStage(stage) ==
    CASE stage = "swiss_groups" -> "swiss_playoffs"
      [] stage = "swiss_playoffs" -> "double_elim"
      [] stage = "double_elim" -> "complete"
      [] OTHER -> None

\* C12: current_stage changes only one step at a time in the order
\* swiss_groups, swiss_playoffs, double_elim, complete, and only when the
\* brackets of the stage left are complete; advance_stage called in a state
\* whose active bracket is incomplete, or in stage complete, returns with
\* the stage, the placements, the points and all brackets unchanged.
StageAdvancesStepwise ==
    [][/\ regional'.current_stage # regional.current_stage =>
            /\ regional'.current_stage = NextStage(regional.current_stage)
            /\ ActiveComplete([regional' EXCEPT !.current_stage = regional.current_stage])
       /\ ~ActiveComplete(regional') =>
            advance_stage(regional') = [regional |-> regional', raised |-> None]]_vars

\* the double elimination stage under way, its bracket incomplete
StageWitness ==
    /\ regional.current_stage = "double_elim"
    /\ regional.double_elim.results >= 4
    /\ ~regional.double_elim.is_complete

\* C13: in stage complete final_placements has exactly 32 entries, one
\* for each entrant, every value in 1..32, and two teams share a value only
\* in the 5th-6th and 7th-8th bands.
CompleteHasAllPlacements ==
    regional.current_stage = "complete" =>
        LET fp == regional.final_placements
        IN /\ DOMAIN fp = Range(regional.teams)
           /\ Cardinality(DOMAIN fp) = 32
           /\ \A t \in DOMAIN fp : fp[t] \in 1..32
           /\ \A t, u \in DOMAIN fp : t # u /\ fp[t] = fp[u] => fp[t] \in 5..8

\* C14: a complete playoff bracket always moves the regional to
\* double_elim: no call ends with an exception, the playoff bracket has
\* eight qualified teams and they, in get_qualified_seeded order, are the
\* seeds of the DoubleEliminationBracket.
PlayoffsSeedDoubleElim ==
    /\ regional.current_stage = "swiss_playoffs" =>
            ~regional.swiss_playoffs.is_complete /\ raised = None
    /\ regional.current_stage \in {"double_elim", "complete"} =>
            /\ Len(regional.swiss_playoffs.qualified) = 8
            /\ regional.double_elim.team_ids = get_qualified_seeded(regional.swiss_playoffs)

\* C15: the playoff bracket is built from 16 distinct teams in the order
\* A1, B1, ..., A8, B8 of the groups' seeded lists, and every team
\* qualified in either group is among them.
PlayoffsInterleaveAllQualified ==
    regional.current_stage # "swiss_groups" =>
        LET qualified_a == get_qualified_seeded(regional.swiss_group_a)
            qualified_b == get_qualified_seeded(regional.swiss_group_b)
            playoff_teams == regional.swiss_playoffs.team_ids
        IN /\ Len(playoff_teams) = 16
           /\ NoDuplicates(playoff_teams)
           /\ Len(qualified_a) >= 8 /\ Len(qualified_b) >= 8
           /\ \A i \in 1..8 : /\ playoff_teams[2 * i - 1] = qualified_a[i]
                              /\ playoff_teams[2 * i] = qualified_b[i]
           /\ Range(qualified_a) \cup Range(qualified_b) \subseteq Range(playoff_teams)

\* C16: once the playoff bracket is complete and advance_stage has run, the
\* teams eliminated from it hold pairwise distinct placements in 9..16, a
\* team eliminated later holding a smaller placement than one eliminated
\* earlier.
PlayoffEliminatedByRecency ==
    (regional.current_stage # "swiss_groups" /\ regional.swiss_playoffs.is_complete) =>
        LET eliminated == regional.swiss_playoffs.eliminated
            fp == regional.final_placements
        IN /\ \A i \in DOMAIN eliminated :
                eliminated[i] \in DOMAIN fp /\ fp[eliminated[i]] \in 9..16
           /\ \A i, j \in DOMAIN eliminated : i < j => fp[eliminated[j]] < fp[eliminated[i]]

\* the playoffs eliminated eight teams and the last of them is placed 9th
PlayoffPlacementWitness ==
    /\ regional.current_stage = "double_elim"
    /\ Len(regional.swiss_playoffs.eliminated) = 8
    /\ regional.final_placements[regional.swiss_playoffs.eliminated[8]] = 9

\* C17: once the groups are left, every team eliminated from group A or B
\* holds a placement in 17..32 and 0 points, and no other team holds a
\* placement in 17..32.
GroupEliminatedInBottomBand ==
    regional.current_stage # "swiss_groups" =>
        LET out == Range(regional.swiss_group_a.eliminated)
                     \cup Range(regional.swiss_group_b.eliminated)
            fp == regional.final_placements
        IN /\ \A t \in out : /\ t \in DOMAIN fp
                             /\ fp[t] \in 17..32
                             /\ regional.points_earned[t] = 0
           /\ \A t \in DOMAIN fp : fp[t] \in 17..32 => t \in out

\* the playoff stage has begun after groups that eliminated seven teams
\* each, and a team holds placement 30
BottomBandWitness ==
    /\ regional.current_stage = "swiss_playoffs"
    /\ Len(regional.swiss_group_a.eliminated) = 7
    /\ \E t \in DOMAIN regional.final_placements : regional.final_placements[t] = 30

\* the points table: 1:15, 2:11, 3:9, 4:7, 5-6:5, 7-8:4, 9-11:3, 12-14:2,
\* 15-16:1, 17-32:0
TablePoints(place) ==
    CASE place = 1 -> 15
      [] place = 2 -> 11
      [] place = 3 -> 9
      [] place = 4 -> 7
      [] place \in 5..6 -> 5
      [] place \in 7..8 -> 4
      [] place \in 9..11 -> 3
      [] place \in 12..14 -> 2
      [] place \in 15..16 -> 1
      [] place \in 17..32 -> 0

\* C18: points_earned has the keys of final_placements and each team's
\* points are the table's points for its placement.
PointsMatchTable ==
    /\ DOMAIN regional.points_earned = DOMAIN regional.final_placements
    /\ \A t \in DOMAIN regional.final_placements :
        regional.points_earned[t] = TablePoints(regional.final_placements[t])

\* a complete regional whose winner has 15 points and whose 32 entrants
\* all have points
PointsWitness ==
    /\ regional.current_stage = "complete"
    /\ Cardinality(DOMAIN regional.points_earned) = 32
    /\ \E t \in DOMAIN regional.points_earned : regional.points_earned[t] = 15

\* C19: a team that has a placement keeps it: no step removes the entry or
\* gives it another value.
PlacementsWriteOnce ==
    [][\A t \in DOMAIN regional.final_placements :
            /\ t \in DOMAIN regional'.final_placements
            /\ regional'.final_placements[t] = regional.final_placements[t]]_vars

\* a complete regional in which a team placed in the groups and the winner
\* of the bracket both hold their placements
WriteOnceWitness ==
    /\ regional.current_stage = "complete"
    /\ \E t \in Range(regional.swiss_group_a.eliminated) : regional.final_placements[t] = 17
    /\ \E t \in Range(regional.double_elim.team_ids) : regional.final_placements[t] = 1

\* the driver's next round has something to play: an incomplete Swiss
\* bracket with an active team, or a bracket match with both teams seated
Playable(r) ==
    CASE r.current_stage = "swiss_groups" ->
            \E b \in {r.swiss_group_a, r.swiss_group_b} :
                ~b.is_complete /\ active_teams(b) # <<>>
      [] r.current_stage = "swiss_playoffs" ->
            ~r.swiss_playoffs.is_complete /\ active_teams(r.swiss_playoffs) # <<>>
      [] r.current_stage = "double_elim" ->
            \E i \in DOMAIN DE_get_next_matches(r.double_elim) :
                LET match == DE_get_next_matches(r.double_elim)[i]
                IN Truthy(match.team1) /\ Truthy(match.team2)
      [] OTHER -> FALSE

\* C20: the driven regional runs to stage complete: in every state short
\* of complete no call has ended with an exception and the next round has
\* something to play.
RegionalRunsToCompletion ==
    regional.current_stage # "complete" =>
        /\ raised = None
        /\ Playable(regional)

\* C23: record_result called with a match id that names none of the 15
\* slots raises the match-not-found error and leaves the slots, the
\* placements, the results, current_phase and is_complete as they were.
UnknownMatchRejected ==
    \A match_id \in UnknownMatchIds, winner_id \in {de.team_ids[1], de.team_ids[8]} :
        LET out == DE_record_result_call(de, match_id, winner_id, 1, 0)
        IN out.raised = "ValueError" /\ out.de = de

\* an unknown match id was rejected in a bracket with five results recorded
UnknownMatchWitness ==
    /\ raised = "ValueError"
    /\ de.results = 5
    /\ de.upper_r2[1].winner # None

\* C24: generate_round_matchups called with fewer than 2 active teams
\* returns an empty list: with no active team it leaves the bracket as it
\* is, with one active team it gives that team a bye and neither appends a
\* round nor increments current_round.
FewActiveTeamsNoRound ==
    LET active == active_teams(bracket)
    IN Len(active) < 2 =>
        \A out \in generate_round_matchups(bracket) :
            /\ out.matchups = <<>>
            /\ out.bracket.rounds = bracket.rounds
            /\ out.bracket.current_round = bracket.current_round
            /\ IF Len(active) = 0
               THEN out.bracket = bracket /\ out.bye = None
               ELSE /\ out.bye = active[1]
                    /\ out.bracket.records[active[1]].wins =
                            bracket.records[active[1]].wins + 1

\* after a played round a call found a single active team: it returned no
\* matchups and gave the bye
FewActiveTeamsWitness ==
    /\ bye # None
    /\ matchups = <<>>
    /\ bracket.rounds >= 1
    /\ bracket.current_round = bracket.rounds
    /\ bracket.results >= 1

\* r1 may stand before r2 in the seeding: more wins, then fewer losses,
\* then the larger game differential, then more game wins
SeededBefore(r1, r2) ==
    LET gd1 == r1.game_wins - r1.game_losses
        gd2 == r2.game_wins - r2.game_losses
    IN \/ r1.wins > r2.wins
       \/ r1.wins = r2.wins /\ r1.losses < r2.losses
       \/ r1.wins = r2.wins /\ r1.losses = r2.losses /\ gd1 > gd2
       \/ r1.wins = r2.wins /\ r1.losses = r2.losses /\ gd1 = gd2
            /\ r1.game_wins >= r2.game_wins

\* C25: get_qualified_seeded returns exactly the qualified teams, each
\* once, ordered by wins descending, losses ascending, game differential
\* descending and game wins descending, and leaves the bracket as it is.
QualifiedSeededInOrder ==
    LET call == get_qualified_seeded_call(bracket)
        seeded == call.seeded
    IN /\ call.bracket = bracket
       /\ Len(seeded) = Len(bracket.qualified)
       /\ Range(seeded) = Range(bracket.qualified)
       /\ \A i, j \in DOMAIN seeded :
            i < j => /\ seeded[i] # seeded[j]
                     /\ SeededBefore(bracket.records[seeded[i]],
                                     bracket.records[seeded[j]])

\* the seeding moved a team with the larger game differential ahead of a
\* team with the same wins and losses that qualified before it
QualifiedSeededWitness ==
    /\ Len(bracket.qualified) >= 2
    /\ get_qualified_seeded(bracket) # bracket.qualified
    /\ game_diff(bracket.records[bracket.qualified[1]]) <
            game_diff(bracket.records[get_qualified_seeded(bracket)[1]])

\* the teams of the matchups ms at the given indices
PairedIn(ms, I) == UNION {{ms[i][1], ms[i][2]} : i \in I}

\* C26: generate_round_matchups emits a rematch only in its final pass
\* over the unpaired teams, and only when the team being placed has played
\* every team still unpaired at that moment; the pairs of the record-group
\* pass have never met.
RematchOnlyInFinalPass ==
    (matchups = <<>> /\ ~bracket.is_complete) =>
        \A out \in generate_round_matchups(bracket) :
            \A i \in DOMAIN out.matchups :
                LET team1 == out.matchups[i][1]
                    played == bracket.records[team1].opponents
                    unpaired == (PairedIn(out.matchups, i..Len(out.matchups))
                                    \cup (IF out.bye = None THEN {} ELSE {out.bye}))
                                \ {team1}
                IN out.matchups[i][2] \in played =>
                        /\ i > out.group_pairs
                        /\ unpaired \subseteq played

\* a bracket for which a call pairs teams in the record-group pass and
\* then emits a rematch in the final pass
FinalPassRematchWitness ==
    /\ matchups = <<>>
    /\ bracket.rounds >= 1
    /\ \E out \in generate_round_matchups(bracket) :
        /\ out.group_pairs >= 1
        /\ \E i \in DOMAIN out.matchups :
            /\ i > out.group_pairs
            /\ out.matchups[i][2] \in bracket.records[out.matchups[i][1]].opponents

\* the decision of every slot: its match id and its winner, None while
\* the match is undecided
Decisions(d) ==
    LET ms == all_matches(d)
    IN [i \in DOMAIN ms |-> [match_id |-> ms[i].match_id, winner |-> ms[i].winner]]

\* the winner the decisions w hold for a match id
WinnerIn(w, match_id) ==
    LET i == CHOOSE i \in DOMAIN w : w[i].match_id = match_id
    IN w[i].winner

\* the phase the decisions w determine; loser_gf is the lower finalist, the
\* team whose win of the grand final asks for the reset
PhaseOfDecisions(w, loser_gf) ==
    LET Won(ids) == \A id \in ids : WinnerIn(w, id) # None
    IN IF Won({"GF"}) /\ WinnerIn(w, "GF") = loser_gf THEN "bracket_reset"
       ELSE IF Won({"LB_F"}) THEN "grand_final"
       ELSE IF Won({"LB_SF"}) THEN "lower_final"
       ELSE IF Won({"UB_F", "LB_R2_1", "LB_R2_2"}) THEN "lower_sf"
       ELSE IF Won({"UB_SF_1", "UB_SF_2", "LB_R1_1", "LB_R1_2"})
            THEN "upper_final_lower_r2"
       ELSE IF Won({"UB_R1_1", "UB_R1_2", "UB_R1_3", "UB_R1_4"})
            THEN "upper_r2_lower_r1"
       ELSE "upper_r1"

\* the match ids of each phase
PhaseMatchIds(phase) ==
    CASE phase = "upper_r1" -> {"UB_R1_1", "UB_R1_2", "UB_R1_3", "UB_R1_4"}
      [] phase = "upper_r2_lower_r1" -> {"UB_SF_1", "UB_SF_2", "LB_R1_1", "LB_R1_2"}
      [] phase = "upper_final_lower_r2" -> {"UB_F", "LB_R2_1", "LB_R2_2"}
      [] phase = "lower_sf" -> {"LB_SF"}
      [] phase = "lower_final" -> {"LB_F"}
      [] phase = "grand_final" -> {"GF"}
      [] phase = "bracket_reset" -> {"BR"}

\* C27: after every record_result the stored current_phase is the value
\* the slot decisions determine, and get_next_matches offers the undecided
\* matches of that phase: brackets holding the same decisions, whatever the
\* order the results were recorded in, agree on both.
PhaseIsFunctionOfDecisions ==
    LET w == Decisions(de)
        phase == PhaseOfDecisions(w, de.lower_final.winner)
        next == DE_get_next_matches(de)
    IN /\ de.current_phase = phase
       /\ {next[i].match_id : i \in DOMAIN next} =
            {id \in PhaseMatchIds(phase) : WinnerIn(w, id) = None}

\* both lower round 2 matches were decided before the upper final: the
\* phase stays with the upper final
PhaseWitness ==
    /\ de.current_phase = "upper_final_lower_r2"
    /\ AllWon(de.lower_r2)
    /\ de.upper_final.winner = None
    /\ de.results = 10

\* C28: is_complete is true exactly when no team is active (neither
\* qualified nor eliminated).
CompleteIffNoActiveTeam ==
    bracket.is_complete <=> active_teams(bracket) = <<>>

\* a step in which no result is recorded: a call of generate_round_matchups
NoResultStep == bracket'.results = bracket.results

\* C29: a SwissRecord changes only in record_result: generate_round_matchups
\* leaves every record, the qualified list and is_complete unchanged.
GenerateLeavesRecords ==
    [][NoResultStep =>
        /\ bracket'.records = bracket.records
        /\ bracket'.qualified = bracket.qualified
        /\ bracket'.is_complete = bracket.is_complete]_vars

\* C29 as amended: generate_round_matchups changes no record but that of
\* the team it gives a bye, of which it raises only wins and game_wins; it
\* changes qualified only by appending that team and is_complete only by
\* setting it after that bye; it never changes eliminated.
GenerateChangesOnlyByeRecord ==
    [][NoResultStep =>
        /\ \A t \in DOMAIN bracket.records :
            LET old == bracket.records[t]
                new == bracket'.records[t]
            IN /\ new.losses = old.losses
               /\ new.game_losses = old.game_losses
               /\ new.opponents = old.opponents
               /\ new.wins >= old.wins
               /\ new.game_wins >= old.game_wins
               /\ new # old => t = bye'
        /\ \/ bracket'.qualified = bracket.qualified
           \/ bye' # None /\ bracket'.qualified = Append(bracket.qualified, bye')
        /\ \/ bracket'.is_complete = bracket.is_complete
           \/ bye' # None /\ bracket'.is_complete
        /\ bracket'.eliminated = bracket.eliminated]_vars

\* a round of two or more played rounds came with a bye: the call raised
\* the record of the bye team and left the records of the paired teams
ByeInGenerateWitness ==
    /\ bye # None
    /\ matchups # <<>>
    /\ recorded = {}
    /\ bracket.rounds >= 2
    /\ bracket.records[bye].wins + bracket.records[bye].losses
            = Cardinality(bracket.records[bye].opponents) + 1

\* C30: the team generate_round_matchups leaves over gets a bye that adds
\* exactly 1 to its wins and 3 to its game_wins, changes nothing else of
\* its record and no other record, and puts the team into qualified exactly
\* if its wins then reach win_threshold.
ByeAddsOneWinThreeGames ==
    [][(NoResultStep /\ bye' # None /\ bracket' # bracket) =>
        /\ bracket'.records =
            [bracket.records EXCEPT ![bye'] =
                [@ EXCEPT !.wins = @ + 1, !.game_wins = @ + 3]]
        /\ bye' \notin Range(bracket.qualified)
        /\ bye' \in Range(bracket'.qualified) <=>
                bracket'.records[bye'].wins >= bracket.win_threshold]_vars

\* a fresh round whose bye team reached win_threshold by the bye
ByeQualifiesWitness ==
    /\ bye # None
    /\ recorded = {}
    /\ matchups # <<>>
    /\ bye \in Range(bracket.qualified)
    /\ bracket.records[bye].wins = bracket.win_threshold
    /\ bracket.records[bye].game_wins >= 3

(***************************************************************************)
(* Properties of the constructors                                          *)
(***************************************************************************)
\* C21: constructing a SwissBracket from an empty team list fails with an
\* error and produces no bracket.
EmptySwissBracketRejected ==
    (ctor = "SwissBracket" /\ Len(arg) < 1) => (raised # None /\ obj = NoObject)

\* C22: constructing a DoubleEliminationBracket from a team list of a
\* length other than 8, or a RegionalTournament from one of a length other
\* than 32, fails with an error and produces no object.
WrongTeamCountRejected ==
    /\ (ctor = "DoubleEliminationBracket" /\ Len(arg) # 8) =>
            (raised = "ValueError" /\ obj = NoObject)
    /\ (ctor = "RegionalTournament" /\ Len(arg) # 32) =>
            (raised = "ValueError" /\ obj = NoObject)

\* a bracket constructor called with 9 teams has raised
WrongTeamCountWitness ==
    /\ ctor = "DoubleEliminationBracket"
    /\ Len(arg) = 9
    /\ raised = "ValueError"

(***************************************************************************)
(* Seating and losses in the DoubleEliminationBracket                      *)
(***************************************************************************)
\* the team of match m that did not win it, None while m is undecided
LoserOf(m) ==
    IF m.winner = None THEN None
    ELSE IF m.winner = m.team1 THEN m.team2 ELSE m.team1

\* C31: LB_R1_1 is played between the loser of UB_R1_1 (team1) and the
\* loser of UB_R1_2 (team2), LB_R1_2 between the losers of UB_R1_3 and
\* UB_R1_4, whoever wins and in whatever order the four are recorded.
LowerRound1SeatsUpperLosers ==
    /\ de.lower_r1[1].match_id = "LB_R1_1"
    /\ de.lower_r1[2].match_id = "LB_R1_2"
    /\ de.lower_r1[1].team1 = LoserOf(de.upper_r1[1])
    /\ de.lower_r1[1].team2 = LoserOf(de.upper_r1[2])
    /\ de.lower_r1[2].team1 = LoserOf(de.upper_r1[3])
    /\ de.lower_r1[2].team2 = LoserOf(de.upper_r1[4])

\* seed 8 beat seed 1 and seed 4 beat seed 5: LB_R1_1 was seed 1 against
\* seed 5 and has been played
LowerRound1Witness ==
    /\ de.upper_r1[1].winner = de.team_ids[8]
    /\ de.upper_r1[2].winner = de.team_ids[4]
    /\ de.lower_r1[1].team1 = de.team_ids[1]
    /\ de.lower_r1[1].team2 = de.team_ids[5]
    /\ de.lower_r1[1].winner = de.team_ids[5]

\* a slot nobody is seated in and nobody has won
EmptySlot(m, match_id) ==
    /\ m.match_id = match_id
    /\ m.team1 = None /\ m.team2 = None
    /\ m.winner = None /\ m.loser = None

\* a slot of upper round 1 holding the seeds s1 and s2 of the list, unplayed
SeededSlot(m, match_id, team_ids, s1, s2) ==
    /\ m.match_id = match_id
    /\ m.team1 = team_ids[s1] /\ m.team2 = team_ids[s2]
    /\ m.winner = None /\ m.loser = None

\* C32: a newly constructed DoubleEliminationBracket holds the seeds (1,8),
\* (4,5), (2,7), (3,6) of its input in UB_R1_1..UB_R1_4, has every other
\* slot unresolved, no winner, no placement, and is not complete.
NewBracketSeeding ==
    (ctor = "DoubleEliminationBracket" /\ raised = None) =>
        /\ Len(obj.upper_r1) = 4
        /\ SeededSlot(obj.upper_r1[1], "UB_R1_1", arg, 1, 8)
        /\ SeededSlot(obj.upper_r1[2], "UB_R1_2", arg, 4, 5)
        /\ SeededSlot(obj.upper_r1[3], "UB_R1_3", arg, 2, 7)
        /\ SeededSlot(obj.upper_r1[4], "UB_R1_4", arg, 3, 6)
        /\ Len(obj.upper_r2) = 2
        /\ EmptySlot(obj.upper_r2[1], "UB_SF_1")
        /\ EmptySlot(obj.upper_r2[2], "UB_SF_2")
        /\ EmptySlot(obj.upper_final, "UB_F")
        /\ Len(obj.lower_r1) = 2
        /\ EmptySlot(obj.lower_r1[1], "LB_R1_1")
        /\ EmptySlot(obj.lower_r1[2], "LB_R1_2")
        /\ Len(obj.lower_r2) = 2
        /\ EmptySlot(obj.lower_r2[1], "LB_R2_1")
        /\ EmptySlot(obj.lower_r2[2], "LB_R2_2")
        /\ Len(obj.lower_r3) = 1
        /\ EmptySlot(obj.lower_r3[1], "LB_SF")
        /\ EmptySlot(obj.lower_final, "LB_F")
        /\ EmptySlot(obj.grand_final, "GF")
        /\ EmptySlot(obj.bracket_reset, "BR")
        /\ ~obj.needed
        /\ obj.placements = <<>>
        /\ obj.results = 0
        /\ ~obj.is_complete

\* the constructor was called with eight teams and returned a bracket
NewBracketWitness ==
    /\ ctor = "DoubleEliminationBracket"
    /\ Len(arg) = 8
    /\ raised = None
    /\ obj.current_phase = "upper_r1"
    /\ obj.upper_r1[2].team2 = "T05"

\* the number of decided matches among ms that team t played and did not win
LossesIn(ms, t) ==
    Cardinality({i \in DOMAIN ms :
        /\ ms[i].winner # None
        /\ t \in {ms[i].team1, ms[i].team2}
        /\ ms[i].winner # t})

Losses(d, t) == LossesIn(all_matches(d), t)

\* team t is seated in a match among ms that is still to be played
SeatedInOpenMatch(ms, t) ==
    \E i \in DOMAIN ms : ms[i].winner = None /\ t \in {ms[i].team1, ms[i].team2}

\* C33: a team holds a placement of 2..8 only after losing exactly two
\* matches, no team is in a match after its second loss, and the team
\* placed 1st has lost at most one match.
PlacedAfterTwoLosses ==
    LET ms == all_matches(de)
        placed == UNION {Range(Placed(place)) : place \in 2..8}
    IN \A t \in Range(de.team_ids) :
        LET lost == LossesIn(ms, t)
        IN /\ lost <= 2
           /\ t \in placed => lost = 2
           /\ lost = 2 => ~SeatedInOpenMatch(ms, t)
           /\ t \in Range(Placed(1)) => lost <= 1

\* the upper finalist lost the grand final and the bracket reset: it is
\* placed 2nd with two losses, behind a champion with one
TwoLossesWitness ==
    /\ de.is_complete
    /\ de.needed
    /\ Placed(2) = <<de.grand_final.team1>>
    /\ Losses(de, de.grand_final.team1) = 2
    /\ Losses(de, Placed(1)[1]) = 1

(***************************************************************************)
(* Properties of simulate_game's player stats                              *)
(***************************************************************************)
\* the goals of the players of a stats list, summed
RECURSIVE GoalsOf(_)
GoalsOf(stats) ==
    IF stats = <<>> THEN 0
    ELSE stats[1].goals + GoalsOf(SubSeq(stats, 2, Len(stats)))

\* C34: after a game that went to overtime each player's stat line in the
\* GameResult holds that player's goals, shots and assists of regulation
\* and of every overtime iteration, and the goals of a side's players sum
\* to that side's score.
OvertimeStatsAccumulate ==
    (pc = "returned" /\ game.overtime) =>
        /\ game.home_stats = resolved.home
        /\ game.away_stats = resolved.away
        /\ GoalsOf(game.home_stats) = game.home_score
        /\ GoalsOf(game.away_stats) = game.away_score

(***************************************************************************)
(* Properties of a 16-team SwissBracket run to completion                  *)
(***************************************************************************)
\* C35: a 16-team SwissBracket with thresholds 3 and 3, run round by round
\* to completion, ends with exactly 8 qualified and 8 eliminated teams.
SwissEndsEightEight ==
    \A b \in {regional.swiss_group_a, regional.swiss_group_b} :
        b.is_complete => Len(b.qualified) = 8 /\ Len(b.eliminated) = 8

(***************************************************************************)
(* Further properties of the SwissBracket                                  *)
(***************************************************************************)
\* C36: a call of generate_round_matchups with at least 2 active teams
\* partitions them: every active team is in exactly one returned matchup
\* or is the one team given the bye, nobody is paired with itself, and no
\* qualified or eliminated team appears.
MatchupsPartitionActive ==
    [][(Len(active_teams(bracket)) >= 2 /\ bracket'.rounds = bracket.rounds + 1) =>
        LET active == Range(active_teams(bracket))
            paired == UNION {{matchups'[i][1], matchups'[i][2]} : i \in DOMAIN matchups'}
            byes == IF bye' = None THEN {} ELSE {bye'}
        IN /\ paired \cup byes = active
           /\ paired \cap byes = {}
           /\ Cardinality(paired) = 2 * Len(matchups')
           /\ \A i \in DOMAIN matchups' : matchups'[i][1] # matchups'[i][2]
           /\ (paired \cup byes) \cap
                (Range(bracket.qualified) \cup Range(bracket.eliminated)) = {}]_vars

\* a fresh second or later round of two matchups and a bye
PartitionWitness ==
    /\ recorded = {}
    /\ Len(matchups) = 2
    /\ bye # None
    /\ bracket.rounds >= 2

(***************************************************************************)
(* Progress of the DoubleEliminationBracket                                *)
(***************************************************************************)
\* C37: while the bracket is not complete get_next_matches returns at
\* least one match, each returned match has two distinct teams seated and
\* no winner; once the bracket is complete it returns the empty list.
NextMatchesPlayable ==
    LET next == DE_get_next_matches(de)
    IN IF de.is_complete
       THEN next = <<>>
       ELSE /\ next # <<>>
            /\ \A i \in DOMAIN next :
                /\ Truthy(next[i].team1)
                /\ Truthy(next[i].team2)
                /\ next[i].team1 # next[i].team2
                /\ next[i].winner = None

\* the lower final is the one match offered, its team2 the loser of the
\* upper final
NextMatchesWitness ==
    /\ ~de.is_complete
    /\ de.current_phase = "lower_final"
    /\ Len(DE_get_next_matches(de)) = 1
    /\ DE_get_next_matches(de)[1].team2 = LoserOf(de.upper_final)

\* C38: a bracket of at least one team is complete after at most
\* win_threshold + loss_threshold - 1 calls of generate_round_matchups:
\* at every round boundary each active team has one win or loss per call
\* made, so all active teams have the same wins + losses.
CompleteWithinRounds ==
    (Len(bracket.team_ids) >= 1 /\ matchups = <<>>) =>
        /\ \A t \in Range(active_teams(bracket)) :
                bracket.records[t].wins + bracket.records[t].losses = calls
        /\ calls >= bracket.win_threshold + bracket.loss_threshold - 1
                => bracket.is_complete
        /\ calls <= bracket.win_threshold + bracket.loss_threshold - 1

\* a bracket with thresholds 2 and 2 that needed all three calls, one of
\* them giving a bye
CompleteWithinRoundsWitness ==
    /\ bracket.is_complete
    /\ bracket.win_threshold = 2 /\ bracket.loss_threshold = 2
    /\ calls = 3
    /\ byes_given >= 1

\* the bracket after the results of the matchups ms, with the scores given
\* per matchup, are recorded in the order of the index list order
RECURSIVE RecordInOrder(_, _, _, _)
RecordInOrder(b, ms, scores, order) ==
    IF order = <<>> THEN b
    ELSE LET i == Head(order)
         IN RecordInOrder(record_result(b, ms[i][1], ms[i][2], scores[i][1], scores[i][2]),
                          ms, scores, Tail(order))

\* the index lists that record every matchup of ms once
RecordingOrders(ms) ==
    {[k \in DOMAIN ms |-> p[k]] : p \in Permutations(DOMAIN ms)}

\* C39: recording the results of one round's matchups in any order gives
\* the same SwissRecords, the same sets of qualified and of eliminated
\* teams and the same is_complete; only the order inside the qualified and
\* eliminated lists can differ.  Every order is compared with the order of
\* the matchup list, which compares every two orders with each other.
RecordingOrderIrrelevant ==
    []((recorded = {} /\ matchups # <<>>) =>
        \A scores \in [DOMAIN matchups -> SeriesScores(bracket.best_of)] :
            LET b1 == RecordInOrder(bracket, matchups, scores,
                                    [k \in DOMAIN matchups |-> k])
            IN \A o2 \in RecordingOrders(matchups) \ {[k \in DOMAIN matchups |-> k]} :
                LET b2 == RecordInOrder(bracket, matchups, scores, o2)
                IN /\ b1.records = b2.records
                   /\ Range(b1.qualified) = Range(b2.qualified)
                   /\ Range(b1.eliminated) = Range(b2.eliminated)
                   /\ Len(b1.qualified) = Len(b2.qualified)
                   /\ Len(b1.eliminated) = Len(b2.eliminated)
                   /\ b1.is_complete = b2.is_complete)

\* a fresh round of two matchups whose two recording orders leave the
\* qualified list in different orders
RecordingOrderWitness ==
    /\ recorded = {}
    /\ Len(matchups) = 2
    /\ \E scores \in [DOMAIN matchups -> SeriesScores(bracket.best_of)] :
        /\ Len(RecordInOrder(bracket, matchups, scores, <<1, 2>>).qualified)
                >= Len(bracket.qualified) + 2
        /\ RecordInOrder(bracket, matchups, scores, <<1, 2>>).qualified
                # RecordInOrder(bracket, matchups, scores, <<2, 1>>).qualified

====
